---------------------------- MODULE Spec2Model ----------------------------
(***************************************************************************)
(* A model of the scoring core of lexarena:                                *)
(*   src/src/evaluation/score_calculator.py                                *)
(*                                                                         *)
(* Python values are tagged records (PyNone, PyBool, PyNum, PyStr, ...),   *)
(* a dict is a function from the keys it holds, a str is a sequence of     *)
(* one-character strings, and an Optional[bool] is PyNone / PyBool.        *)
(* Monetary amounts are whole numbers: within the amounts used here the    *)
(* float division and comparison of the source are exact, so the relative  *)
(* error test is modelled by cross-multiplication.                         *)
(***************************************************************************)
EXTENDS Integers, Sequences, FiniteSets, TLC

VARIABLES
    tolerance,      \* ScoreCalculator.tolerance, in percent (0.10 is 10)
    predicted,      \* the predicted mapping of the case at hand
    ground_truth,   \* the ground-truth mapping of the case at hand
    pc,             \* the caller's position: "ready" (a case to compare),
                    \* "returned" | "raised" (compare_single's outcome),
                    \* "collected" (the comparisons are in results),
                    \* "permuted" (results was reordered)
    result,         \* the PredictionResult compare_single returned
    results,        \* the caller's list of PredictionResults
    score,          \* the ModelScore calculate_model_score returned, or NoScore
    args,           \* the arguments of the function called on its own, under
                    \* their parameter names, with fn the function's name
    ret,            \* what that call returned
    files,          \* the files the scripts read and write, by name
    trace           \* what the runner did to the outside: provider calls, sleeps,
                    \* progress callbacks, in order

vars == <<tolerance, predicted, ground_truth, pc, result, results, score, args, ret,
         files, trace>>

---------------------------------------------------------------------------
(* Python values *)

PyNone == [t |-> "none", b |-> FALSE, n |-> 0, s |-> <<>>]
PyBool(x) == [t |-> "bool", b |-> x, n |-> 0, s |-> <<>>]
PyNum(x) == [t |-> "num", b |-> FALSE, n |-> x, s |-> <<>>]
PyStr(x) == [t |-> "str", b |-> FALSE, n |-> 0, s |-> x]
\* an int beyond the range of a float (10**309): float() of it raises OverflowError
PyHugeInt == [t |-> "hugeint", b |-> FALSE, n |-> 0, s |-> <<>>]
\* a value that is neither None, bool, number nor str (the empty list)
PyList == [t |-> "list", b |-> FALSE, n |-> 0, s |-> <<>>]

PyTrue == PyBool(TRUE)
PyFalse == PyBool(FALSE)

IsNone(v) == v.t = "none"

\* dict.get(key): None for a missing key
Get(m, k) == IF k \in DOMAIN m THEN m[k] ELSE PyNone

---------------------------------------------------------------------------
(* str methods, on sequences of characters *)

Uppers == <<"A","B","C","D","E","F","G","H","I","J","K","L","M",
            "N","O","P","Q","R","S","T","U","V","W","X","Y","Z">>
Lowers == <<"a","b","c","d","e","f","g","h","i","j","k","l","m",
            "n","o","p","q","r","s","t","u","v","w","x","y","z">>
Digits == <<"0","1","2","3","4","5","6","7","8","9">>
Whitespace == {" ", "\t", "\n"}

LowerChar(c) ==
    IF \E i \in 1..26 : Uppers[i] = c
    THEN Lowers[CHOOSE i \in 1..26 : Uppers[i] = c]
    ELSE c

\* str.lower()
Lower(s) == [i \in 1..Len(s) |-> LowerChar(s[i])]

\* str.replace(old, new) for one-character old and new
Replace(s, old, new) == [i \in 1..Len(s) |-> IF s[i] = old THEN new ELSE s[i]]

\* str.replace(old, '') for a one-character old
Remove(s, old) == SelectSeq(s, LAMBDA c : c # old)

RECURSIVE LStrip(_)
LStrip(s) ==
    IF s # <<>> /\ Head(s) \in Whitespace THEN LStrip(Tail(s)) ELSE s

RECURSIVE RStrip(_)
RStrip(s) ==
    IF s # <<>> /\ s[Len(s)] \in Whitespace
    THEN RStrip(SubSeq(s, 1, Len(s) - 1))
    ELSE s

\* str.strip()
Strip(s) == RStrip(LStrip(s))

IsDigit(c) == \E i \in 1..10 : Digits[i] = c
DigitValue(c) == (CHOOSE i \in 1..10 : Digits[i] = c) - 1

\* str(n) of a natural number
RECURSIVE NatStr(_)
NatStr(n) ==
    IF n < 10 THEN <<Digits[n + 1]>>
    ELSE NatStr(n \div 10) \o <<Digits[(n % 10) + 1]>>

\* str(n) of an int
IntStr(n) == IF n < 0 THEN <<"-">> \o NatStr(0 - n) ELSE NatStr(n)

\* str(10**309), the least power of ten no float holds
HugeIntStr == [i \in 1..310 |-> IF i = 1 THEN "1" ELSE "0"]

\* str(value)
Str(v) ==
    CASE v.t = "str" -> v.s
      [] v.t = "bool" -> IF v.b THEN <<"T","r","u","e">> ELSE <<"F","a","l","s","e">>
      [] v.t = "num" -> IntStr(v.n)
      [] v.t = "hugeint" -> HugeIntStr
      [] v.t = "list" -> <<"[","]">>
      [] OTHER -> <<"N","o","n","e">>

---------------------------------------------------------------------------
(* ScoreCalculator: normalisation *)

\* The keys of a prediction and of a ground truth
MonetaryKeys == {"disgorgement_amount", "penalty_amount", "prejudgment_interest"}
BooleanKeys == {"has_injunction", "has_officer_director_bar", "has_conduct_restriction"}
Keys == {"resolution_type"} \cup MonetaryKeys \cup BooleanKeys

\* The outcome of a call that raised OverflowError instead of returning
OverflowError == [t |-> "OverflowError", b |-> FALSE, n |-> 0, s |-> <<>>]

\* _normalize_resolution_type without .replace('-', '_'): C9 tells the two apart
_normalize_resolution_type_keeping_hyphens(value) ==
    IF IsNone(value) THEN <<>>
    ELSE Replace(Strip(Lower(Str(value))), " ", "_")

_normalize_resolution_type(value) ==
    IF IsNone(value) THEN <<>>
    ELSE Replace(Replace(Strip(Lower(Str(value))), " ", "_"), "-", "_")

S_yes == <<"y","e","s">>
S_true == <<"t","r","u","e">>
S_no == <<"n","o">>
S_false == <<"f","a","l","s","e">>
S_null == <<"n","u","l","l">>
S_none == <<"n","o","n","e">>
S_na == <<"n","/","a">>

\* _normalize_boolean reading the numbers 1 and 0 as booleans too: C11 tells the
\* two apart
_normalize_boolean_of_numbers(value) ==
    CASE IsNone(value) -> PyNone
      [] value.t = "bool" -> value
      [] value.t = "num" /\ value.n \in {0, 1} -> PyBool(value.n = 1)
      [] value.t = "str" ->
            LET lower == Strip(Lower(value.s)) IN
            IF lower \in {S_yes, S_true, <<"1">>} THEN PyTrue
            ELSE IF lower \in {S_no, S_false, <<"0">>} THEN PyFalse
            ELSE PyNone
      [] OTHER -> PyNone

_normalize_boolean(value) ==
    CASE IsNone(value) -> PyNone
      [] value.t = "bool" -> value
      [] value.t = "str" ->
            LET lower == Strip(Lower(value.s)) IN
            IF lower \in {S_yes, S_true, <<"1">>} THEN PyTrue
            ELSE IF lower \in {S_no, S_false, <<"0">>} THEN PyFalse
            ELSE PyNone
      [] OTHER -> PyNone

RECURSIVE DigitsValue(_)
DigitsValue(s) ==
    IF s = <<>> THEN 0
    ELSE 10 * DigitsValue(SubSeq(s, 1, Len(s) - 1)) + DigitValue(s[Len(s)])

\* float(s) of a str: surrounding whitespace, an optional sign, then digits in
\* which single underscores may stand between two digits; PyNone stands for the
\* ValueError.  (The strings of the model hold no decimal point, exponent, "nan"
\* or "inf" form.)
FloatOfStr(s) ==
    LET t == Strip(s)
        signed == t # <<>> /\ t[1] \in {"+", "-"}
        body == IF signed THEN Tail(t) ELSE t
        wellFormed ==
            /\ body # <<>>
            /\ \A i \in 1..Len(body) :
                  \/ IsDigit(body[i])
                  \/ /\ body[i] = "_"
                     /\ 1 < i /\ i < Len(body)
                     /\ IsDigit(body[i - 1]) /\ IsDigit(body[i + 1])
        magnitude == DigitsValue(Remove(body, "_"))
    IN  IF ~wellFormed THEN PyNone
        ELSE PyNum(IF signed /\ t[1] = "-" THEN 0 - magnitude ELSE magnitude)

_normalize_monetary(value) ==
    CASE IsNone(value) -> PyNone
      [] value.t = "bool" -> PyNum(IF value.b THEN 1 ELSE 0)
      [] value.t = "num" -> PyNum(value.n)
      [] value.t = "hugeint" -> OverflowError
      [] value.t = "str" ->
            LET cleaned == Strip(Remove(Remove(value.s, "$"), ",")) IN
            IF Lower(cleaned) \in {S_null, S_none, S_na, <<>>} THEN PyNone
            ELSE FloatOfStr(cleaned)
      [] OTHER -> PyNone

Abs(x) == IF x < 0 THEN 0 - x ELSE x

\* ErrorRatioWithin with the bound excluded (error_ratio < tolerance): C1 tells
\* the two apart
ErrorRatioStrictlyWithin(p, a, tol) ==
    IF a > 0 THEN 100 * Abs(p - a) < tol * a
    ELSE 100 * Abs(p - a) > tol * a

\* abs(predicted - actual) / actual <= tol / 100, for actual # 0
ErrorRatioWithin(p, a, tol) ==
    IF a > 0 THEN 100 * Abs(p - a) <= tol * a
    ELSE 100 * Abs(p - a) >= tol * a

\* _check_monetary_within_tolerance testing predicted for None before actual: C2
\* tells the two apart
_check_monetary_predicted_first(p, actual, tol) ==
    IF IsNone(p) THEN PyFalse
    ELSE IF IsNone(actual) THEN PyNone
    ELSE IF actual.n = 0 THEN PyBool(p.n = 0)
    ELSE PyBool(ErrorRatioWithin(p.n, actual.n, tol))

_check_monetary_within_tolerance(p, actual, tol) ==
    IF IsNone(actual) THEN PyNone
    ELSE IF actual.n = 0 THEN PyBool(~IsNone(p) /\ p.n = 0)
    ELSE IF IsNone(p) THEN PyFalse
    ELSE PyBool(ErrorRatioWithin(p.n, actual.n, tol))

\* pred == actual, for a normalised boolean prediction (None or a bool) and a
\* ground-truth value that is not None: a bool equals the numbers 1 and 0
PyEq(pred, actual) ==
    CASE IsNone(pred) -> FALSE
      [] actual.t = "bool" -> pred.b = actual.b
      [] actual.t = "num" -> actual.n = (IF pred.b THEN 1 ELSE 0)
      [] OTHER -> FALSE

---------------------------------------------------------------------------
(* ScoreCalculator.compare_single *)

\* The seven correctness fields of a PredictionResult, in the order compare_single
\* sets them
CorrectFields ==
    <<"resolution_type_correct", "disgorgement_correct", "penalty_correct",
      "interest_correct", "injunction_correct", "officer_bar_correct",
      "conduct_restriction_correct">>

\* PredictionResult(case_id, predicted, ground_truth): the dataclass defaults
\* (the case_id, which nothing reads, is left out)
PredictionResult(p, g) ==
    [resolution_type_correct |-> PyNone,
     disgorgement_correct |-> PyNone,
     penalty_correct |-> PyNone,
     interest_correct |-> PyNone,
     injunction_correct |-> PyNone,
     officer_bar_correct |-> PyNone,
     conduct_restriction_correct |-> PyNone,
     predicted |-> p,
     ground_truth |-> g,
     errors |-> <<>>]

\* ErrorText formatting the actual value before the predicted one: C8 tells the
\* two apart
ErrorTextActualFirst(label, first, second) ==
    [label |-> label, first |-> second, second |-> first]

\* One formatted mismatch string: the label, then the value formatted first and
\* the value formatted second
ErrorText(label, first, second) == [label |-> label, first |-> first, second |-> second]

\* errors.append(...) when the field is incorrect
AppendIf(cond, label, first, second) ==
    IF cond THEN <<ErrorText(label, first, second)>> ELSE <<>>

\* ResolutionCorrect skipping the field also when nothing was predicted: C20 tells
\* the two apart
ResolutionCorrectIfPredicted(pred_res, actual_res) ==
    IF actual_res # <<>> /\ pred_res # <<>> THEN PyBool(pred_res = actual_res) ELSE PyNone

\* if actual_res: correct = (pred_res == actual_res), on normalised strings
ResolutionCorrect(pred_res, actual_res) ==
    IF actual_res # <<>> THEN PyBool(pred_res = actual_res) ELSE PyNone

\* FlagCorrect skipping the field also when the prediction is None: C3 tells the
\* two apart
FlagCorrectIfPredicted(pred, actual) ==
    IF ~IsNone(actual) /\ ~IsNone(pred) THEN PyBool(PyEq(pred, actual)) ELSE PyNone

\* if actual is not None: correct = (pred == actual), for a flag
FlagCorrect(pred, actual) ==
    IF ~IsNone(actual) THEN PyBool(PyEq(pred, actual)) ELSE PyNone

\* The value compare_single returns, or raised = TRUE when a normalisation raises
compare_single(p, g, tol) ==
    LET pred_res == _normalize_resolution_type(Get(p, "resolution_type"))
        actual_res == _normalize_resolution_type(Get(g, "resolution_type"))
        res_correct == ResolutionCorrect(pred_res, actual_res)
        pred_disg == _normalize_monetary(Get(p, "disgorgement_amount"))
        actual_disg == _normalize_monetary(Get(g, "disgorgement_amount"))
        pred_pen == _normalize_monetary(Get(p, "penalty_amount"))
        actual_pen == _normalize_monetary(Get(g, "penalty_amount"))
        pred_int == _normalize_monetary(Get(p, "prejudgment_interest"))
        actual_int == _normalize_monetary(Get(g, "prejudgment_interest"))
        raises == OverflowError \in
                    {pred_disg, actual_disg, pred_pen, actual_pen, pred_int, actual_int}
        disg_correct == _check_monetary_within_tolerance(pred_disg, actual_disg, tol)
        pen_correct == _check_monetary_within_tolerance(pred_pen, actual_pen, tol)
        int_correct == _check_monetary_within_tolerance(pred_int, actual_int, tol)
        pred_inj == _normalize_boolean(Get(p, "has_injunction"))
        actual_inj == Get(g, "has_injunction")
        inj_correct == FlagCorrect(pred_inj, actual_inj)
        pred_bar == _normalize_boolean(Get(p, "has_officer_director_bar"))
        actual_bar == Get(g, "has_officer_director_bar")
        bar_correct == FlagCorrect(pred_bar, actual_bar)
        pred_cond == _normalize_boolean(Get(p, "has_conduct_restriction"))
        actual_cond == Get(g, "has_conduct_restriction")
        cond_correct == FlagCorrect(pred_cond, actual_cond)
    IN  IF raises THEN [raised |-> TRUE, value |-> PredictionResult(p, g)]
        ELSE [raised |-> FALSE,
              value |->
                [resolution_type_correct |-> res_correct,
                 disgorgement_correct |-> disg_correct,
                 penalty_correct |-> pen_correct,
                 interest_correct |-> int_correct,
                 injunction_correct |-> inj_correct,
                 officer_bar_correct |-> bar_correct,
                 conduct_restriction_correct |-> cond_correct,
                 predicted |-> p,
                 ground_truth |-> g,
                 errors |->
                    AppendIf(res_correct = PyFalse, "Resolution type",
                             PyStr(pred_res), PyStr(actual_res))
                    \o AppendIf(disg_correct = PyFalse, "Disgorgement", pred_disg, actual_disg)
                    \o AppendIf(pen_correct = PyFalse, "Penalty", pred_pen, actual_pen)
                    \o AppendIf(int_correct = PyFalse, "Interest", pred_int, actual_int)
                    \o AppendIf(inj_correct = PyFalse, "Injunction", pred_inj, actual_inj)
                    \o AppendIf(bar_correct = PyFalse, "Officer bar", pred_bar, actual_bar)
                    \o AppendIf(cond_correct = PyFalse, "Conduct restriction",
                                pred_cond, actual_cond)]]

---------------------------------------------------------------------------
(* ScoreCalculator.calculate_model_score *)

\* Percentages are exact fractions in lowest terms, [num, den] with den > 0
RECURSIVE GCD(_, _)
GCD(a, b) == IF b = 0 THEN a ELSE GCD(b, a % b)

Frac(n, d) ==
    LET g == GCD(Abs(n), d) IN [num |-> n \div g, den |-> d \div g]

Zero == Frac(0, 1)

FracAdd(x, y) == Frac(x.num * y.den + y.num * x.den, x.den * y.den)

\* sum(scores)
RECURSIVE Sum(_)
Sum(scores) == IF scores = <<>> THEN Zero ELSE FracAdd(Head(scores), Sum(Tail(scores)))

\* sum(scores) / len(scores) if scores else 0
Mean(scores) ==
    IF scores = <<>> THEN Zero
    ELSE LET total == Sum(scores) IN Frac(total.num, total.den * Len(scores))

\* (100 * correct / total) if total > 0 else 0
Accuracy(correct, total) == IF total > 0 THEN Frac(100 * correct, total) ELSE Zero

\* NoCounts with the totals an earlier aggregation left behind, as counters kept
\* on the calculator would be: C21 tells the two apart
CountsKeptOnSelf ==
    [f \in {CorrectFields[i] : i \in 1..7} |->
        [correct |-> 0, total |-> IF score.computed THEN score.total_cases ELSE 0]]

\* The counters before the loop
NoCounts ==
    [f \in {CorrectFields[i] : i \in 1..7} |-> [correct |-> 0, total |-> 0]]

\* CountOne counting a None field in the total too: C4 tells the two apart
CountOneEvery(counts, r) ==
    [f \in DOMAIN counts |->
        [correct |-> counts[f].correct + (IF r[f] = PyTrue THEN 1 ELSE 0),
         total |-> counts[f].total + 1]]

\* One pass of the loop body: for each field that is not None, total += 1, and
\* correct += 1 if it is true
CountOne(counts, r) ==
    [f \in DOMAIN counts |->
        IF IsNone(r[f]) THEN counts[f]
        ELSE [correct |-> counts[f].correct + (IF r[f] = PyTrue THEN 1 ELSE 0),
              total |-> counts[f].total + 1]]

\* CountAll keeping, of each field, only the last comparison that scores it (the
\* counters assigned, not incremented): C7 tells the two apart
RECURSIVE CountLast(_, _)
CountLast(counts, rs) ==
    IF rs = <<>> THEN counts
    ELSE CountLast(
            [f \in DOMAIN counts |->
                IF IsNone(Head(rs)[f]) THEN counts[f]
                ELSE [correct |-> IF Head(rs)[f] = PyTrue THEN 1 ELSE 0, total |-> 1]],
            Tail(rs))

\* for r in results: ..., in list order
RECURSIVE CountAll(_, _)
CountAll(counts, rs) ==
    IF rs = <<>> THEN counts ELSE CountAll(CountOne(counts, Head(rs)), Tail(rs))

\* scores.append(accuracy) if total > 0
ScoreIf(total, accuracy) == IF total > 0 THEN <<accuracy>> ELSE <<>>

\* MonetaryScores averaging all three fields, scorable or not: C6 tells the two
\* apart
MonetaryScoresAllThree(c) ==
    <<Accuracy(c.disgorgement_correct.correct, c.disgorgement_correct.total),
      Accuracy(c.penalty_correct.correct, c.penalty_correct.total),
      Accuracy(c.interest_correct.correct, c.interest_correct.total)>>

\* The monetary average: only the monetary fields with a scorable case
MonetaryScores(c) ==
    ScoreIf(c.disgorgement_correct.total,
            Accuracy(c.disgorgement_correct.correct, c.disgorgement_correct.total))
    \o ScoreIf(c.penalty_correct.total,
               Accuracy(c.penalty_correct.correct, c.penalty_correct.total))
    \o ScoreIf(c.interest_correct.total,
               Accuracy(c.interest_correct.correct, c.interest_correct.total))

\* CategoryScores averaging all five categories, scorable or not: C5 tells the
\* two apart
CategoryScoresAllFive(c) ==
    <<Accuracy(c.resolution_type_correct.correct, c.resolution_type_correct.total),
      Mean(MonetaryScores(c)),
      Accuracy(c.injunction_correct.correct, c.injunction_correct.total),
      Accuracy(c.officer_bar_correct.correct, c.officer_bar_correct.total),
      Accuracy(c.conduct_restriction_correct.correct, c.conduct_restriction_correct.total)>>

\* The overall score: the categories with a scorable case
CategoryScores(c) ==
    ScoreIf(c.resolution_type_correct.total,
            Accuracy(c.resolution_type_correct.correct, c.resolution_type_correct.total))
    \o (IF MonetaryScores(c) # <<>> THEN <<Mean(MonetaryScores(c))>> ELSE <<>>)
    \o ScoreIf(c.injunction_correct.total,
               Accuracy(c.injunction_correct.correct, c.injunction_correct.total))
    \o ScoreIf(c.officer_bar_correct.total,
               Accuracy(c.officer_bar_correct.correct, c.officer_bar_correct.total))
    \o ScoreIf(c.conduct_restriction_correct.total,
               Accuracy(c.conduct_restriction_correct.correct,
                        c.conduct_restriction_correct.total))

\* The ModelScore (the model_name, which nothing reads, is left out)
calculate_model_score(rs) ==
    LET c == CountAll(NoCounts, rs) IN
    [computed |-> TRUE,
     resolution_type_accuracy |->
        Accuracy(c.resolution_type_correct.correct, c.resolution_type_correct.total),
     disgorgement_accuracy |->
        Accuracy(c.disgorgement_correct.correct, c.disgorgement_correct.total),
     penalty_accuracy |-> Accuracy(c.penalty_correct.correct, c.penalty_correct.total),
     interest_accuracy |-> Accuracy(c.interest_correct.correct, c.interest_correct.total),
     injunction_accuracy |->
        Accuracy(c.injunction_correct.correct, c.injunction_correct.total),
     officer_bar_accuracy |->
        Accuracy(c.officer_bar_correct.correct, c.officer_bar_correct.total),
     conduct_restriction_accuracy |->
        Accuracy(c.conduct_restriction_correct.correct, c.conduct_restriction_correct.total),
     monetary_accuracy |-> Mean(MonetaryScores(c)),
     overall_score |-> Mean(CategoryScores(c)),
     total_cases |-> Len(rs),
     resolution_scorable |-> c.resolution_type_correct.total,
     disgorgement_scorable |-> c.disgorgement_correct.total,
     penalty_scorable |-> c.penalty_correct.total,
     interest_scorable |-> c.interest_correct.total]

\* No ModelScore computed yet
NoScore == [computed |-> FALSE]

---------------------------------------------------------------------------
(* The inputs of the model *)

\* Strings a resolution type arrives as
S_settled == <<"s","e","t","t","l","e","d">>
S_Settled_padded == <<" ","S","e","t","t","l","e","d","\t">>
S_litigated == <<"l","i","t","i","g","a","t","e","d">>
S_consent_judgment == <<"c","o","n","s","e","n","t"," ","j","u","d","g","m","e","n","t">>
S_Consent_Judgment == <<"C","o","n","s","e","n","t","-","J","u","d","g","m","e","n","t">>
S_empty == <<>>
S_blank == <<" "," ">>
\* Strings a flag arrives as
S_Yes_padded == <<" ","Y","e","s"," ">>
S_TRUE == <<"T","R","U","E">>
S_maybe == <<"m","a","y","b","e">>
\* Strings an amount arrives as
S_373885 == <<"$","3","7","3",",","8","8","5">>
S_NA == <<"N","/","A">>
S_2_million == <<"2"," ","m","i","l","l","i","o","n">>
S_minus_10 == <<"-","1","0">>

Strings ==
    {S_settled, S_Settled_padded, S_litigated, S_consent_judgment, S_Consent_Judgment,
     S_empty, S_blank, S_yes, S_Yes_padded, S_no, S_TRUE, S_false, <<"1">>, <<"0">>,
     S_maybe, S_373885, S_NA, S_2_million, S_minus_10}

\* Amounts: zero, the edges of 10% around 10, a negative amount, and the amounts
\* of the documented scenarios
Amounts == {0, 1, 9, 10, 11, 12, -10, 300000, 370000, 373885}

Values ==
    {PyNone, PyTrue, PyFalse, PyHugeInt, PyList}
    \cup {PyNum(n) : n \in Amounts}
    \cup {PyStr(s) : s \in Strings}

\* ScoreCalculator(tolerance=...), in percent: the default and a wider one
DefaultTolerance == 10
Tolerances == {DefaultTolerance, 20}

EmptyDict == [k \in {} |-> PyNone]

\* A mapping holding at most the one key k
OneKeyDicts(k) == {EmptyDict} \cup {[j \in {k} |-> v] : v \in Values}

\* Cases about one field: every value (or no key) against every value (or no key)
FocusCases ==
    UNION {{[p |-> p, g |-> g] : p \in OneKeyDicts(k), g \in OneKeyDicts(k)} : k \in Keys}

\* A ground-truth value of the key, a prediction that matches it and one that
\* does not
TypicalGroundTruth(k) ==
    IF k = "resolution_type" THEN PyStr(S_settled)
    ELSE IF k \in MonetaryKeys THEN PyNum(373885)
    ELSE PyTrue

TypicalRight(k) ==
    IF k = "resolution_type" THEN PyStr(S_Settled_padded)
    ELSE IF k \in MonetaryKeys THEN PyNum(370000)
    ELSE PyStr(S_yes)

TypicalWrong(k) ==
    IF k = "resolution_type" THEN PyStr(S_litigated)
    ELSE IF k \in MonetaryKeys THEN PyNum(300000)
    ELSE PyFalse

\* Cases over all seven fields: each ground-truth value typical or null, each
\* predicted value right or wrong
FullCases ==
    {[p |-> [k \in Keys |-> IF k \in W THEN TypicalWrong(k) ELSE TypicalRight(k)],
      g |-> [k \in Keys |-> IF k \in D THEN TypicalGroundTruth(k) ELSE PyNone]] :
        W \in SUBSET Keys, D \in SUBSET Keys}

\* The empty prediction, as parse_llm_response returns it when every strategy
\* fails, against each of those ground truths
EmptyPredictionCases ==
    {[p |-> EmptyDict,
      g |-> [k \in Keys |-> IF k \in D THEN TypicalGroundTruth(k) ELSE PyNone]] :
        D \in SUBSET Keys}

CompareCases == FocusCases \cup FullCases \cup EmptyPredictionCases

\* The longest list of comparisons passed to calculate_model_score
MaxResults == 3

\* The comparisons of a corpus: the ground truth holds no field, one field, the
\* resolution type and the injunction flag, or all seven, and each field it holds
\* is predicted right or wrong (all right or all wrong when it holds all seven)
ScoreShapes ==
    {{}} \cup {{k} : k \in Keys} \cup {{"resolution_type", "has_injunction"}} \cup {Keys}

ScoreCases ==
    {[p |-> [k \in dw[1] |-> IF k \in dw[2] THEN TypicalWrong(k) ELSE TypicalRight(k)],
      g |-> [k \in dw[1] |-> TypicalGroundTruth(k)]] :
        dw \in {x \in ScoreShapes \X SUBSET Keys :
                  /\ x[2] \subseteq x[1]
                  /\ x[1] = Keys => x[2] \in {{}, Keys}}}

\* The PredictionResults compare_single returns for them
ScoreResults ==
    {compare_single(c.p, c.g, DefaultTolerance).value : c \in ScoreCases}

---------------------------------------------------------------------------
(* The state machine *)

\* No function is called on its own
NoArgs == [fn |-> "none"]

\* No file exists
NoFiles == [name \in {} |-> <<>>]

\* A calculator and one case, not yet compared
InitCompare ==
    /\ tolerance \in Tolerances
    /\ \E c \in CompareCases : predicted = c.p /\ ground_truth = c.g
    /\ pc = "ready"
    /\ result = PredictionResult(EmptyDict, EmptyDict)
    /\ results = <<>>
    /\ score = NoScore
    /\ args = NoArgs
    /\ ret = PyNone
    /\ files = NoFiles
    /\ trace = <<>>

\* A calculator and the comparisons of a corpus, collected
InitScore ==
    /\ tolerance = DefaultTolerance
    /\ predicted = EmptyDict
    /\ ground_truth = EmptyDict
    /\ pc = "collected"
    /\ result = PredictionResult(EmptyDict, EmptyDict)
    /\ \E n \in 0..MaxResults : results \in [1..n -> ScoreResults]
    /\ score = NoScore
    /\ args = NoArgs
    /\ ret = PyNone
    /\ files = NoFiles
    /\ trace = <<>>

\* result = calculator.compare_single(case_id, predicted, ground_truth)
CompareSingle ==
    /\ pc = "ready"
    /\ LET out == compare_single(predicted, ground_truth, tolerance) IN
       IF out.raised
       THEN pc' = "raised" /\ UNCHANGED result
       ELSE pc' = "returned" /\ result' = out.value
    /\ UNCHANGED <<tolerance, predicted, ground_truth, results, score, args, ret, files, trace>>

\* The caller puts the result in its list of comparisons
Collect ==
    /\ pc = "returned"
    /\ Len(results) < MaxResults
    /\ results' = Append(results, result)
    /\ pc' = "collected"
    /\ UNCHANGED <<tolerance, predicted, ground_truth, result, score, args, ret, files, trace>>

\* score = calculator.calculate_model_score(model_name, results)
CalculateModelScore ==
    /\ pc \in {"collected", "permuted"}
    /\ score' = calculate_model_score(results)
    /\ UNCHANGED <<tolerance, predicted, ground_truth, pc, result, results, args, ret, files, trace>>

\* The caller passes the same comparisons in another order
Permute ==
    /\ pc \in {"collected", "permuted"}
    /\ \E i \in 1..(Len(results) - 1) :
          results' = [results EXCEPT ![i] = results[i + 1], ![i + 1] = results[i]]
    /\ pc' = "permuted"
    /\ UNCHANGED <<tolerance, predicted, ground_truth, result, score, args, ret, files, trace>>

NextCompare == CompareSingle \/ Collect \/ CalculateModelScore

NextScore == CalculateModelScore \/ Permute

\* One case compared, collected and scored
SpecCompare == InitCompare /\ [][NextCompare]_vars

\* A corpus of comparisons scored, in any order
SpecScore == InitScore /\ [][NextScore]_vars

---------------------------------------------------------------------------
(* Claims about compare_single, under SpecCompare *)

MonetaryFields == {"disgorgement_correct", "penalty_correct", "interest_correct"}
FlagFields == {"injunction_correct", "officer_bar_correct", "conduct_restriction_correct"}
AllFields == {"resolution_type_correct"} \cup MonetaryFields \cup FlagFields

\* The key of the mappings a correctness field is computed from
KeyOf(f) ==
    CASE f = "resolution_type_correct" -> "resolution_type"
      [] f = "disgorgement_correct" -> "disgorgement_amount"
      [] f = "penalty_correct" -> "penalty_amount"
      [] f = "interest_correct" -> "prejudgment_interest"
      [] f = "injunction_correct" -> "has_injunction"
      [] f = "officer_bar_correct" -> "has_officer_director_bar"
      [] f = "conduct_restriction_correct" -> "has_conduct_restriction"

\* The ground truth holds null for the key, or does not hold the key
GtAbsent(k) == k \notin DOMAIN ground_truth \/ ground_truth[k] = PyNone

\* |p - a| / a <= tol / 100 for a # 0, both sides multiplied by 100 * |a|
RelativeErrorAtMost(p, a, tol) ==
    Abs(p - a) * (IF a > 0 THEN 1 ELSE -1) * 100 <= tol * Abs(a)

ExpectedMonetary(p, a, tol) ==
    CASE IsNone(a) -> PyNone
      [] ~IsNone(a) /\ a.n = 0 -> PyBool(~IsNone(p) /\ p.n = 0)
      [] ~IsNone(a) /\ a.n # 0 /\ IsNone(p) -> PyFalse
      [] OTHER -> PyBool(RelativeErrorAtMost(p.n, a.n, tol))

\* C1: for each monetary field, the correctness compare_single returns is what
\* _check_monetary_within_tolerance is claimed to return for the normalised
\* predicted and actual amounts: null when actual is null; when actual = 0, true
\* iff predicted = 0 (null gives false); when actual # 0 and predicted is null,
\* false; otherwise true iff |predicted - actual| / actual <= tolerance, the bound
\* included.  With the default tolerance, 370000 against 373885 is true and
\* 300000 against 373885 is false.
C1_MonetaryWithinTolerance ==
    pc = "returned" =>
        \A f \in MonetaryFields :
            LET p == _normalize_monetary(Get(predicted, KeyOf(f)))
                a == _normalize_monetary(Get(ground_truth, KeyOf(f)))
            IN  /\ result[f] = ExpectedMonetary(p, a, tolerance)
                /\ (tolerance = DefaultTolerance /\ a = PyNum(373885)) =>
                      /\ p = PyNum(370000) => result[f] = PyTrue
                      /\ p = PyNum(300000) => result[f] = PyFalse

\* C1 witness: scenario 2 was compared with the default tolerance
C1_Witness ==
    /\ pc = "returned"
    /\ tolerance = DefaultTolerance
    /\ Get(predicted, "disgorgement_amount") = PyNum(370000)
    /\ Get(ground_truth, "disgorgement_amount") = PyNum(373885)
    /\ result.disgorgement_correct = PyTrue

\* The ModelScore's scorable count of a monetary field
ScorableCount(sc, f) ==
    CASE f = "disgorgement_correct" -> sc.disgorgement_scorable
      [] f = "penalty_correct" -> sc.penalty_scorable
      [] f = "interest_correct" -> sc.interest_scorable
      [] f = "resolution_type_correct" -> sc.resolution_scorable

\* C2: when the ground truth of a monetary field is null or its key is missing,
\* compare_single sets the field's correctness to null whatever was predicted, and
\* calculate_model_score, given that comparison, does not count it in the field's
\* scorable count.
C2_NullGroundTruthNotScored ==
    \A f \in MonetaryFields :
        GtAbsent(KeyOf(f)) =>
            /\ pc \in {"returned", "collected"} => result[f] = PyNone
            /\ (pc = "collected" /\ score # NoScore) =>
                  /\ results = <<result>>
                  /\ ScorableCount(score, f) = 0

\* C2 witness: a penalty was predicted against a null ground truth, and the
\* comparison was scored
C2_Witness ==
    /\ pc = "collected"
    /\ score # NoScore
    /\ "penalty_amount" \in DOMAIN ground_truth
    /\ ground_truth["penalty_amount"] = PyNone
    /\ Get(predicted, "penalty_amount") = PyNum(370000)
    /\ result.penalty_correct = PyNone
    /\ score.penalty_scorable = 0

\* A str that is empty or holds only whitespace
BlankStr(v) == v.t = "str" /\ \A i \in 1..Len(v.s) : v.s[i] \in Whitespace

\* C3 as stated: resolution_type_correct and each flag's correctness is non-null
\* exactly when the ground truth holds a non-null value for the field.
C3_Original ==
    pc = "returned" =>
        \A f \in {"resolution_type_correct"} \cup FlagFields :
            (result[f] # PyNone) <=> ~GtAbsent(KeyOf(f))

\* C3, amended: each flag's correctness is non-null exactly when the ground truth
\* holds a non-null value for it; resolution_type_correct is non-null exactly when
\* the ground truth holds a non-null resolution type that is not an empty or
\* whitespace-only string.  Either way the predicted value has no part in it.
C3_ScorableByGroundTruth ==
    pc = "returned" =>
        /\ \A f \in FlagFields : (result[f] # PyNone) <=> ~GtAbsent(KeyOf(f))
        /\ (result.resolution_type_correct # PyNone) <=>
              /\ ~GtAbsent("resolution_type")
              /\ ~BlankStr(ground_truth["resolution_type"])

\* C3 witness: a blank ground-truth resolution type was compared with a
\* prediction and left unscored
C3_Witness ==
    /\ pc = "returned"
    /\ ~GtAbsent("resolution_type")
    /\ BlankStr(ground_truth["resolution_type"])
    /\ ~IsNone(Get(predicted, "resolution_type"))
    /\ result.resolution_type_correct = PyNone

\* The label a mismatch description opens with
LabelOf(f) ==
    CASE f = "resolution_type_correct" -> "Resolution type"
      [] f = "disgorgement_correct" -> "Disgorgement"
      [] f = "penalty_correct" -> "Penalty"
      [] f = "interest_correct" -> "Interest"
      [] f = "injunction_correct" -> "Injunction"
      [] f = "officer_bar_correct" -> "Officer bar"
      [] f = "conduct_restriction_correct" -> "Conduct restriction"

\* The predicted value of a field, as compare_single normalises it
PredictedShown(f) ==
    IF f = "resolution_type_correct"
    THEN PyStr(_normalize_resolution_type(Get(predicted, KeyOf(f))))
    ELSE IF f \in MonetaryFields THEN _normalize_monetary(Get(predicted, KeyOf(f)))
    ELSE _normalize_boolean(Get(predicted, KeyOf(f)))

\* The actual value of a field: normalised, but for a flag as the ground truth
\* holds it
ActualShown(f) ==
    IF f = "resolution_type_correct"
    THEN PyStr(_normalize_resolution_type(Get(ground_truth, KeyOf(f))))
    ELSE IF f \in MonetaryFields THEN _normalize_monetary(Get(ground_truth, KeyOf(f)))
    ELSE Get(ground_truth, KeyOf(f))

\* C8: the errors list compare_single returns holds exactly one mismatch
\* description for each field whose correctness is false and none for a field that
\* is true or null, in the fixed field order, each naming the field with the
\* predicted value first and the actual value second; so its length is the number
\* of false fields and it is empty iff no field is false.
C8_ErrorsListFalseFields ==
    pc = "returned" =>
        LET wrong == SelectSeq(CorrectFields, LAMBDA f : result[f] = PyFalse) IN
        /\ Len(result.errors) = Cardinality({f \in AllFields : result[f] = PyFalse})
        /\ Len(result.errors) = Len(wrong)
        /\ \A i \in 1..Len(wrong) :
              /\ result.errors[i].label = LabelOf(wrong[i])
              /\ result.errors[i].first = PredictedShown(wrong[i])
              /\ result.errors[i].second = ActualShown(wrong[i])
        /\ (result.errors = <<>>) <=> (\A f \in AllFields : result[f] # PyFalse)

\* C8 witness: a comparison with false fields of two kinds beside a true and a
\* null field
C8_Witness ==
    /\ pc = "returned"
    /\ result.resolution_type_correct = PyTrue
    /\ result.disgorgement_correct = PyFalse
    /\ result.penalty_correct = PyNone
    /\ result.officer_bar_correct = PyFalse
    /\ Len(result.errors) = 2
    /\ result.errors[1].first # result.errors[1].second

\* Lower-cased, trimmed, spaces and hyphens replaced by underscores; null is ""
NormalizedResolution(v) ==
    IF IsNone(v) THEN <<>>
    ELSE LET t == Strip(Lower(Str(v))) IN
         [i \in 1..Len(t) |-> IF t[i] \in {" ", "-"} THEN "_" ELSE t[i]]

\* C9: when scorable, resolution_type_correct is true iff the predicted and the
\* ground-truth value are equal after lower-casing, trimming and replacing spaces
\* and hyphens by underscores (null normalising to the empty string, so a missing
\* prediction is incorrect); a scorable flag is correct iff the normalised
\* predicted boolean equals the ground-truth boolean, and a prediction that
\* normalises to null is incorrect, never unscorable.
C9_ExactMatchAfterNormalization ==
    pc = "returned" =>
        /\ result.resolution_type_correct # PyNone =>
              /\ (result.resolution_type_correct = PyTrue) <=>
                    (NormalizedResolution(Get(predicted, "resolution_type"))
                        = NormalizedResolution(Get(ground_truth, "resolution_type")))
              /\ IsNone(Get(predicted, "resolution_type")) =>
                    result.resolution_type_correct = PyFalse
        /\ \A f \in FlagFields :
              LET pred == _normalize_boolean(Get(predicted, KeyOf(f)))
                  actual == Get(ground_truth, KeyOf(f))
              IN  ~IsNone(actual) =>
                    /\ result[f] # PyNone
                    /\ actual.t = "bool" => ((result[f] = PyTrue) <=> (pred = actual))
                    /\ IsNone(pred) => result[f] = PyFalse

\* C9 witness: "Consent-Judgment" was compared with "consent judgment" and found
\* correct
C9_Witness ==
    /\ pc = "returned"
    /\ Get(predicted, "resolution_type") = PyStr(S_Consent_Judgment)
    /\ Get(ground_truth, "resolution_type") = PyStr(S_consent_judgment)
    /\ result.resolution_type_correct = PyTrue

\* A predicted value that cannot be read as a value of the field
Malformed(f, v) ==
    IF f \in MonetaryFields
    THEN v.t \in {"str", "list"} /\ _normalize_monetary(v) = PyNone
    ELSE IF f \in FlagFields THEN ~IsNone(v) /\ _normalize_boolean(v) = PyNone
    ELSE FALSE

\* C10: compare_single is total: for every predicted and every ground-truth
\* mapping, with any keys present and values of any kind, it returns a result and
\* never raises; a malformed predicted value on a scorable field is scored false,
\* and any predicted value on an unscorable field leaves it null.
C10_Total ==
    /\ pc # "raised"
    /\ pc = "returned" =>
          \A f \in AllFields :
              /\ (result[f] # PyNone /\ Malformed(f, Get(predicted, KeyOf(f)))) =>
                    result[f] = PyFalse
              /\ GtAbsent(KeyOf(f)) => result[f] = PyNone

---------------------------------------------------------------------------
(* Claims about calculate_model_score, under SpecScore *)

\* The comparisons whose field is true, and those whose field is not null
TrueCount(f) == Cardinality({i \in 1..Len(results) : results[i][f] = PyTrue})
NonNullCount(f) == Cardinality({i \in 1..Len(results) : results[i][f] # PyNone})

\* The ModelScore's accuracy of a field
AccuracyOf(sc, f) ==
    CASE f = "resolution_type_correct" -> sc.resolution_type_accuracy
      [] f = "disgorgement_correct" -> sc.disgorgement_accuracy
      [] f = "penalty_correct" -> sc.penalty_accuracy
      [] f = "interest_correct" -> sc.interest_accuracy
      [] f = "injunction_correct" -> sc.injunction_accuracy
      [] f = "officer_bar_correct" -> sc.officer_bar_accuracy
      [] f = "conduct_restriction_correct" -> sc.conduct_restriction_accuracy

\* The fraction x is n / d
IsRatio(x, n, d) == x.den > 0 /\ x.num * d = n * x.den

\* C4: for each of the seven fields, accuracy = 100 x (comparisons whose field is
\* true) / (comparisons whose field is non-null), and 0 when no comparison has a
\* non-null value for the field; the scorable counts of resolution type,
\* disgorgement, penalty and interest are those non-null counts, and total_cases is
\* the number of comparisons passed in.
C4_PerFieldAccuracy ==
    score # NoScore =>
        /\ \A f \in AllFields :
              IF NonNullCount(f) = 0
              THEN IsRatio(AccuracyOf(score, f), 0, 1)
              ELSE IsRatio(AccuracyOf(score, f), 100 * TrueCount(f), NonNullCount(f))
        /\ \A f \in {"resolution_type_correct"} \cup MonetaryFields :
              ScorableCount(score, f) = NonNullCount(f)
        /\ score.total_cases = Len(results)

\* C4 witness: three comparisons scored, one field correct in one of the three
\* and another never scorable
C4_Witness ==
    /\ score # NoScore
    /\ Len(results) = 3
    /\ NonNullCount("injunction_correct") = 3
    /\ TrueCount("injunction_correct") = 1
    /\ score.injunction_accuracy = [num |-> 100, den |-> 3]
    /\ NonNullCount("penalty_correct") = 0
    /\ score.penalty_accuracy = Zero

\* The accuracies of the fields of fs that have a scorable comparison
ScorableAccuracies(fs) ==
    LET chosen == SelectSeq(fs, LAMBDA f : NonNullCount(f) > 0) IN
    [i \in 1..Len(chosen) |-> AccuracyOf(score, chosen[i])]

\* The fraction x is the unweighted mean of the fractions of accs, 0 for none
IsMeanOf(x, accs) ==
    IF accs = <<>> THEN IsRatio(x, 0, 1)
    ELSE IsRatio(x, Sum(accs).num, Sum(accs).den * Len(accs))

\* The five categories: the accuracy of each that has a scorable comparison
ScorableCategories ==
    ScorableAccuracies(<<"resolution_type_correct">>)
    \o (IF \E f \in MonetaryFields : NonNullCount(f) > 0
        THEN <<score.monetary_accuracy>> ELSE <<>>)
    \o ScorableAccuracies(<<"injunction_correct", "officer_bar_correct",
                            "conduct_restriction_correct">>)

\* C5: the overall score is the unweighted mean of the accuracies of those of the
\* five categories (resolution type, monetary composite, injunction, officer bar,
\* conduct restriction) that had a scorable comparison, the monetary composite
\* counting as scorable when any monetary field had one; it is 0 when no category
\* is scorable.  When only resolution type and injunction are ever scorable, it
\* is the mean of exactly those two accuracies.
C5_OverallScore ==
    score # NoScore =>
        /\ IsMeanOf(score.overall_score, ScorableCategories)
        /\ ( /\ \A f \in AllFields :
                  NonNullCount(f) > 0 <=>
                      f \in {"resolution_type_correct", "injunction_correct"} )
           => IsMeanOf(score.overall_score,
                       <<score.resolution_type_accuracy, score.injunction_accuracy>>)

\* C5 witness: three comparisons in which only resolution type and injunction
\* are scorable, the two accuracies differing
C5_Witness ==
    /\ score # NoScore
    /\ Len(results) = 3
    /\ \A f \in AllFields :
          NonNullCount(f) > 0 <=> f \in {"resolution_type_correct", "injunction_correct"}
    /\ score.resolution_type_accuracy = [num |-> 100, den |-> 1]
    /\ score.injunction_accuracy = [num |-> 100, den |-> 3]
    /\ score.overall_score = [num |-> 200, den |-> 3]

\* C6: the monetary composite is the unweighted mean of the disgorgement, penalty
\* and interest accuracies of those of the three fields that had a scorable
\* comparison, and 0 when none had one.
C6_MonetaryComposite ==
    score # NoScore =>
        IsMeanOf(score.monetary_accuracy,
                 ScorableAccuracies(<<"disgorgement_correct", "penalty_correct",
                                      "interest_correct">>))

\* C6 witness: disgorgement always right, penalty always wrong, interest never
\* scorable: the composite is 50, not 33 1/3
C6_Witness ==
    /\ score # NoScore
    /\ NonNullCount("interest_correct") = 0
    /\ score.disgorgement_accuracy = [num |-> 100, den |-> 1]
    /\ NonNullCount("penalty_correct") > 0
    /\ score.penalty_accuracy = Zero
    /\ score.monetary_accuracy = [num |-> 50, den |-> 1]

\* C7: calculate_model_score is order-independent: the ModelScore returned for
\* the comparisons in an earlier order is the ModelScore of the same comparisons
\* in every order the list is brought into.
C7_OrderIndependent ==
    score # NoScore => score = calculate_model_score(results)

\* C7 witness: three distinct comparisons were scored and then reordered
C7_Witness ==
    /\ score # NoScore
    /\ pc = "permuted"
    /\ Len(results) = 3
    /\ results[1] # results[2] /\ results[2] # results[3] /\ results[1] # results[3]
    /\ score.overall_score \notin {Zero, [num |-> 100, den |-> 1]}

---------------------------------------------------------------------------
(* The normalisers called on their own *)

UpperChar(c) ==
    IF \E i \in 1..26 : Lowers[i] = c
    THEN Uppers[CHOOSE i \in 1..26 : Lowers[i] = c]
    ELSE c

\* str.upper()
Upper(s) == [i \in 1..Len(s) |-> UpperChar(s[i])]

\* str.capitalize() of a lower-case word
Capitalize(s) == [i \in 1..Len(s) |-> IF i = 1 THEN UpperChar(s[i]) ELSE s[i]]

\* The six words _normalize_boolean knows, in three casings and four paddings
BooleanWords == {S_yes, S_true, <<"1">>, S_no, S_false, <<"0">>}

BooleanSpellings ==
    {l \o c \o r :
        l \in {<<>>, <<" ">>},
        c \in UNION {{w, Upper(w), Capitalize(w)} : w \in BooleanWords},
        r \in {<<>>, <<"\t", "\n">>}}

\* Strings that are none of the six words
S_y == <<"y">>
S_on == <<"o","n">>
S_01 == <<"0","1">>
S_yes_dot == <<"y","e","s",".">>
S_true_false == <<"t","r","u","e"," ","f","a","l","s","e">>
S_t_rue == <<"t"," ","r","u","e">>

BooleanInputs ==
    Values
    \cup {PyStr(s) : s \in BooleanSpellings}
    \cup {PyStr(s) : s \in {S_y, S_on, S_01, S_yes_dot, S_true_false, S_t_rue}}

\* The largest error of a prediction, in either direction
MaxError == 21

\* Actual amounts: zero, a negative one, and amounts whose 10% and 20% are whole
Actuals == {-10, 0, 10, 20, 100}

NormaliserCalls ==
    {[fn |-> "_normalize_boolean", value |-> v] : v \in BooleanInputs}
    \cup {[fn |-> "_check_monetary_within_tolerance", predicted |-> p, actual |-> a] :
            p \in {PyNone}, a \in {PyNone} \cup {PyNum(n) : n \in Actuals}}
    \cup {[fn |-> "_check_monetary_within_tolerance",
           predicted |-> PyNum(ad[1] + ad[2]), actual |-> PyNum(ad[1])] :
            ad \in Actuals \X ((0 - MaxError)..MaxError)}
    \cup {[fn |-> "_check_monetary_within_tolerance",
           predicted |-> PyNum(n), actual |-> PyNone] : n \in Actuals}

\* A calculator and the arguments of one call of a normaliser
InitNormalise ==
    /\ tolerance \in Tolerances
    /\ predicted = EmptyDict
    /\ ground_truth = EmptyDict
    /\ pc = "ready"
    /\ result = PredictionResult(EmptyDict, EmptyDict)
    /\ results = <<>>
    /\ score = NoScore
    /\ args \in NormaliserCalls
    /\ ret = PyNone
    /\ files = NoFiles
    /\ trace = <<>>

\* ret = calculator._normalize_boolean(value)
NormalizeBoolean ==
    /\ pc = "ready"
    /\ args.fn = "_normalize_boolean"
    /\ ret' = _normalize_boolean(args.value)
    /\ pc' = "returned"
    /\ UNCHANGED <<tolerance, predicted, ground_truth, result, results, score, args,
                 files, trace>>

\* ret = calculator._check_monetary_within_tolerance(predicted, actual)
CheckMonetaryWithinTolerance ==
    /\ pc = "ready"
    /\ args.fn = "_check_monetary_within_tolerance"
    /\ ret' = _check_monetary_within_tolerance(args.predicted, args.actual, tolerance)
    /\ pc' = "returned"
    /\ UNCHANGED <<tolerance, predicted, ground_truth, result, results, score, args,
                 files, trace>>

NextNormalise == NormalizeBoolean \/ CheckMonetaryWithinTolerance

\* One call of a normaliser
SpecNormalise == InitNormalise /\ [][NextNormalise]_vars

---------------------------------------------------------------------------
(* Claims about the normalisers, under SpecNormalise *)

\* The string s is the lower-case word w in any casing, between whitespace only
IsWord(s, w) ==
    \E i \in 0..Len(s) :
        /\ i + Len(w) <= Len(s)
        /\ \A k \in 1..i : s[k] \in Whitespace
        /\ \A k \in 1..Len(w) : LowerChar(s[i + k]) = w[k]
        /\ \A k \in (i + Len(w) + 1)..Len(s) : s[k] \in Whitespace

\* C11: _normalize_boolean returns one of true, false and null for every input:
\* a native boolean unchanged; true for a string that is "yes", "true" or "1"
\* after trimming and ignoring case; false for one that is "no", "false" or "0";
\* and null for every other input: null, any other string, every number (1 and 0
\* too) and a value of any other kind.
C11_NormalizeBooleanTotal ==
    (pc = "returned" /\ args.fn = "_normalize_boolean") =>
        LET v == args.value
            truthy == v.t = "str" /\ \E w \in {S_yes, S_true, <<"1">>} : IsWord(v.s, w)
            falsy == v.t = "str" /\ \E w \in {S_no, S_false, <<"0">>} : IsWord(v.s, w)
        IN  /\ ret \in {PyTrue, PyFalse, PyNone}
            /\ v.t = "bool" => ret = v
            /\ truthy => ret = PyTrue
            /\ falsy => ret = PyFalse
            /\ (v.t # "bool" /\ ~truthy /\ ~falsy) => ret = PyNone

\* C11 witness: the number 1 was normalised to null
C11_Witness ==
    /\ pc = "returned"
    /\ args.fn = "_normalize_boolean"
    /\ args.value = PyNum(1)
    /\ ret = PyNone

\* C12: for actual # 0 the tolerance check is symmetric in the sign of the error
\* (actual + d is accepted iff actual - d is) and scales with actual (a prediction
\* is accepted only when |error| <= tolerance x |actual|); for actual = 0 it is
\* true iff the prediction is 0.
C12_SymmetricAndScaled ==
    (/\ pc = "returned"
     /\ args.fn = "_check_monetary_within_tolerance"
     /\ ~IsNone(args.actual)) =>
        LET a == args.actual.n IN
        IF a = 0
        THEN (ret = PyTrue) <=> (~IsNone(args.predicted) /\ args.predicted.n = 0)
        ELSE ~IsNone(args.predicted) =>
                LET d == args.predicted.n - a IN
                /\ ret = _check_monetary_within_tolerance(PyNum(a - d), args.actual,
                                                          tolerance)
                /\ ret = PyTrue => 100 * Abs(d) <= tolerance * Abs(a)

---------------------------------------------------------------------------
(* GroundTruthExtractor: src/src/preprocessing/ground_truth_extractor.py *)

\* The characters of a string literal
Chars(str) == [i \in 1..Len(str) |-> SubSeq(str, i, i)]

\* A local variable: Body at the value of e, which is computed once
Local(e, Body(_)) == CHOOSE r \in {Body(x) : x \in {e}} : TRUE

\* sub occurs in s at index i
OccursAt(s, sub, i) ==
    /\ i + Len(sub) - 1 <= Len(s)
    /\ s[i] = sub[1]
    /\ SubSeq(s, i, i + Len(sub) - 1) = sub

\* sub in s, for a sub that is not empty
Contains(s, sub) == \E t \in {s}, u \in {sub} : \E i \in 1..Len(t) : OccursAt(t, u, i)

\* s.find(sub, start), counting from 1: the least index from start on at which sub
\* occurs, 0 for none
Find(s, sub, start) ==
    Local(sub, LAMBDA u :
        IF \E i \in start..Len(s) : OccursAt(s, u, i)
        THEN CHOOSE i \in start..Len(s) :
                /\ OccursAt(s, u, i)
                /\ \A j \in start..(i - 1) : ~OccursAt(s, u, j)
        ELSE 0)

\* not text: the text is None, the empty str or the number 0
Falsy(text) ==
    \/ IsNone(text)
    \/ text.t = "str" /\ text.s = <<>>
    \/ text.t = "num" /\ text.n = 0

\* The outcome of text.lower() on a text that is no str: AttributeError is raised
AttributeError == [t |-> "AttributeError", b |-> FALSE, n |-> 0, s |-> <<>>]

S_ongoing == Chars("ongoing")

\* extract_resolution_type testing the litigated rules before the settled ones:
\* C13 tells the two apart
extract_resolution_type_litigated_first(text) ==
    IF Falsy(text) THEN PyStr(S_ongoing)
    ELSE IF text.t # "str" THEN AttributeError
    ELSE Local(Lower(text.s), LAMBDA text_lower :
         IF \/ Contains(text_lower, Chars("final judgment"))
            \/ /\ Contains(text_lower, Chars("jury"))
               /\ Contains(text_lower, Chars("verdict"))
            \/ Contains(text_lower, Chars("dismiss"))
         THEN PyStr(S_litigated)
         ELSE IF \/ Contains(text_lower, Chars("settled action"))
                 \/ /\ Contains(text_lower, Chars("consent"))
                    /\ Contains(text_lower, Chars("judgment"))
         THEN PyStr(S_settled)
         ELSE PyStr(S_ongoing))

\* extract_resolution_type without its "if not text" guard: C17 tells the two apart
extract_resolution_type_unguarded(text) ==
    IF text.t # "str" THEN AttributeError
    ELSE Local(Lower(text.s), LAMBDA text_lower :
         IF \/ Contains(text_lower, Chars("settled action"))
            \/ /\ Contains(text_lower, Chars("consent"))
               /\ Contains(text_lower, Chars("judgment"))
         THEN PyStr(S_settled)
         ELSE IF \/ Contains(text_lower, Chars("final judgment"))
                 \/ /\ Contains(text_lower, Chars("jury"))
                    /\ Contains(text_lower, Chars("verdict"))
                 \/ Contains(text_lower, Chars("dismiss"))
         THEN PyStr(S_litigated)
         ELSE PyStr(S_ongoing))

extract_resolution_type(text) ==
    IF Falsy(text) THEN PyStr(S_ongoing)
    ELSE IF text.t # "str" THEN AttributeError
    ELSE Local(Lower(text.s), LAMBDA text_lower :
         IF \/ Contains(text_lower, Chars("settled action"))
            \/ Contains(text_lower, Chars("filed settled action"))
         THEN PyStr(S_settled)
         ELSE IF /\ Contains(text_lower, Chars("consent"))
                 /\ Contains(text_lower, Chars("judgment"))
         THEN PyStr(S_settled)
         ELSE IF Contains(text_lower, Chars("final judgment")) THEN PyStr(S_litigated)
         ELSE IF /\ Contains(text_lower, Chars("jury"))
                 /\ Contains(text_lower, Chars("verdict"))
         THEN PyStr(S_litigated)
         ELSE IF \/ Contains(text_lower, Chars("dismiss"))
                 \/ Contains(text_lower, Chars("dismissed with prejudice"))
         THEN PyStr(S_litigated)
         ELSE PyStr(S_ongoing))

\* The least index from i on whose character is not in class, Len(s) + 1 for none:
\* where a greedy run of class characters starting at i ends
RunEnd(s, i, class) ==
    CHOOSE k \in i..(Len(s) + 1) :
        /\ k = Len(s) + 1 \/ s[k] \notin class
        /\ \A j \in i..(k - 1) : s[j] \in class

DigitChars == {Digits[i] : i \in 1..10}

\* \$\s*([\d,]+(?:\.\d+)?) tried at index i: the span of group 1 (stop is one past
\* its end), an empty span when the pattern does not match there
NumberSpan(s, i) ==
    IF s[i] # "$" THEN [start |-> 0, stop |-> 0]
    ELSE LET j == RunEnd(s, i + 1, Whitespace)
             k == RunEnd(s, j, DigitChars \cup {","})
             m == IF k + 1 <= Len(s) /\ s[k] = "." /\ s[k + 1] \in DigitChars
                  THEN RunEnd(s, k + 1, DigitChars)
                  ELSE k
         IN  IF k > j THEN [start |-> j, stop |-> m] ELSE [start |-> 0, stop |-> 0]

\* One of the three patterns matches at index i: the number, then \s* and the
\* unit in any case (the empty unit for MONEY_PATTERN, whose unit is optional)
MatchesAt(s, i, unit) ==
    LET span == NumberSpan(s, i)
        n == RunEnd(s, span.stop, Whitespace)
    IN  /\ span.start > 0
        /\ unit # <<>> =>
              /\ n + Len(unit) - 1 <= Len(s)
              /\ Lower(SubSeq(s, n, n + Len(unit) - 1)) = unit

NoMatch == [matched |-> FALSE, group |-> <<>>]

\* re.search(pattern, s, re.IGNORECASE): the leftmost match and its group 1
Search(s, unit) ==
    IF \E i \in 1..Len(s) : MatchesAt(s, i, unit)
    THEN LET i == CHOOSE i \in 1..Len(s) :
                    /\ MatchesAt(s, i, unit)
                    /\ \A j \in 1..(i - 1) : ~MatchesAt(s, j, unit)
             span == NumberSpan(s, i)
         IN  [matched |-> TRUE, group |-> SubSeq(s, span.start, span.stop - 1)]
    ELSE NoMatch

MONEY_PATTERN == <<>>
MONEY_MILLIONS_PATTERN == Chars("million")
MONEY_BILLIONS_PATTERN == Chars("billion")

\* An amount is an exact decimal, mantissa x 10^exponent, with a mantissa that is
\* 0 (and exponent 0) or not divisible by 10
RECURSIVE Decimal(_, _)
Decimal(mantissa, exponent) ==
    IF mantissa = 0 THEN [mantissa |-> 0, exponent |-> 0]
    ELSE IF mantissa % 10 = 0 THEN Decimal(mantissa \div 10, exponent + 1)
    ELSE [mantissa |-> mantissa, exponent |-> exponent]

\* float(clean_str) of digits with an optional fraction; PyNone stands for the
\* ValueError (the empty string)
FloatOfDecimal(clean_str) ==
    IF clean_str = <<>> THEN PyNone
    ELSE LET dot == Find(clean_str, <<".">>, 1)
             whole == IF dot = 0 THEN clean_str ELSE SubSeq(clean_str, 1, dot - 1)
             fraction == IF dot = 0 THEN <<>>
                         ELSE SubSeq(clean_str, dot + 1, Len(clean_str))
         IN  Decimal(DigitsValue(whole \o fraction), 0 - Len(fraction))

_parse_money_amount(amount_str, is_millions, is_billions) ==
    LET amount == FloatOfDecimal(Remove(amount_str, ",")) IN
    IF amount = PyNone THEN PyNone
    ELSE IF is_billions THEN Decimal(amount.mantissa, amount.exponent + 9)
    ELSE IF is_millions THEN Decimal(amount.mantissa, amount.exponent + 6)
    ELSE amount

\* search_text = text[pos:pos + 200]
Window == 200

\* What the scan of one keyword ends with
NotFound == [found |-> FALSE, value |-> PyNone]
Found(value) == [found |-> TRUE, value |-> value]

\* The amount _parse_money_amount makes of the first pattern that matches in
\* search_text, billions before millions before a plain amount
AmountIn(search_text) ==
    LET billions == Search(search_text, MONEY_BILLIONS_PATTERN)
        millions == Search(search_text, MONEY_MILLIONS_PATTERN)
        plain == Search(search_text, MONEY_PATTERN)
    IN  IF billions.matched THEN Found(_parse_money_amount(billions.group, FALSE, TRUE))
        ELSE IF millions.matched
        THEN Found(_parse_money_amount(millions.group, TRUE, FALSE))
        ELSE IF plain.matched THEN Found(_parse_money_amount(plain.group, FALSE, FALSE))
        ELSE NotFound

\* text[pos:pos + 200], for pos counted from 1
SearchText(text, pos) ==
    SubSeq(text, pos, IF pos + Window - 1 < Len(text) THEN pos + Window - 1 ELSE Len(text))

\* The while loop of one keyword, from index pos on
RECURSIVE ScanOccurrences(_, _, _, _)
ScanOccurrences(text, text_lower, keyword, pos) ==
    Local(Find(text_lower, keyword, pos), LAMBDA at :
        IF at = 0 THEN NotFound
        ELSE Local(Local(SearchText(text, at), LAMBDA search_text : AmountIn(search_text)),
                   LAMBDA amount :
                        IF amount.found THEN amount
                        ELSE ScanOccurrences(text, text_lower, keyword,
                                             at + Len(keyword))))

\* ScanKeywords trying the last keyword of the list first: C14 tells the two apart
RECURSIVE ScanKeywordsLastFirst(_, _, _)
ScanKeywordsLastFirst(text, text_lower, keywords) ==
    IF keywords = <<>> THEN PyNone
    ELSE Local(ScanOccurrences(text, text_lower, keywords[Len(keywords)], 1),
               LAMBDA scan :
                    IF scan.found THEN scan.value
                    ELSE ScanKeywordsLastFirst(text, text_lower,
                                               SubSeq(keywords, 1, Len(keywords) - 1)))

\* for keyword in keywords: ...; return None
RECURSIVE ScanKeywords(_, _, _)
ScanKeywords(text, text_lower, keywords) ==
    IF keywords = <<>> THEN PyNone
    ELSE Local(ScanOccurrences(text, text_lower, Head(keywords), 1), LAMBDA scan :
            IF scan.found THEN scan.value
            ELSE ScanKeywords(text, text_lower, Tail(keywords)))

_extract_amount_after_keyword(text, keywords) ==
    IF Falsy(text) THEN PyNone
    ELSE IF text.t # "str" THEN AttributeError
    ELSE Local(Lower(text.s), LAMBDA text_lower :
            ScanKeywords(text.s, text_lower, keywords))

DisgorgementKeywords ==
    <<Chars("disgorgement of"), Chars("disgorgement totaling"), Chars("disgorge"),
      Chars("disgorgement")>>

PenaltyKeywords ==
    <<Chars("civil penalty of"), Chars("civil penalties of"),
      Chars("civil penalty totaling"), Chars("penalty of"), Chars("penalties of"),
      Chars("civil monetary penalty")>>

InterestKeywords ==
    <<Chars("prejudgment interest of"), Chars("prejudgment interest totaling"),
      Chars("pre-judgment interest of"), Chars("prejudgment interest")>>

extract_disgorgement_amount(text) ==
    _extract_amount_after_keyword(text, DisgorgementKeywords)

extract_penalty_amount(text) == _extract_amount_after_keyword(text, PenaltyKeywords)

extract_prejudgment_interest(text) ==
    _extract_amount_after_keyword(text, InterestKeywords)

\* extract_has_injunction giving None, not False, when nothing speaks of an
\* injunction: C16 tells the two apart
extract_has_injunction_or_none(text) ==
    IF Falsy(text) THEN PyNone
    ELSE IF text.t # "str" THEN AttributeError
    ELSE Local(Lower(text.s), LAMBDA text_lower :
         IF \/ Contains(text_lower, Chars("injunction"))
            \/ Contains(text_lower, Chars("enjoin"))
            \/ Contains(text_lower, Chars("permanently restrained"))
            \/ Contains(text_lower, Chars("permanent restraining"))
         THEN PyTrue
         ELSE PyNone)

extract_has_injunction(text) ==
    IF Falsy(text) THEN PyFalse
    ELSE IF text.t # "str" THEN AttributeError
    ELSE Local(Lower(text.s), LAMBDA text_lower :
         PyBool(\/ Contains(text_lower, Chars("injunction"))
                \/ Contains(text_lower, Chars("injunctive relief"))
                \/ Contains(text_lower, Chars("enjoin"))
                \/ Contains(text_lower, Chars("permanently restrained"))
                \/ Contains(text_lower, Chars("permanent restraining"))))

extract_has_officer_director_bar(text) ==
    IF Falsy(text) THEN PyFalse
    ELSE IF text.t # "str" THEN AttributeError
    ELSE Local(Lower(text.s), LAMBDA text_lower :
         PyBool(\/ /\ Contains(text_lower, Chars("officer"))
                   /\ Contains(text_lower, Chars("director"))
                   /\ Contains(text_lower, Chars("bar"))
                \/ Contains(text_lower, Chars("barred from serving as an officer"))
                \/ Contains(text_lower, Chars("barred from serving as a director"))
                \/ Contains(text_lower, Chars("officer and director bar"))
                \/ Contains(text_lower, Chars("o&d bar"))))

extract_has_conduct_restriction(text) ==
    IF Falsy(text) THEN PyFalse
    ELSE IF text.t # "str" THEN AttributeError
    ELSE Local(Lower(text.s), LAMBDA text_lower :
         PyBool(\/ Contains(text_lower, Chars("conduct-based injunction"))
                \/ Contains(text_lower, Chars("trading restriction"))
                \/ Contains(text_lower, Chars("penny stock bar"))
                \/ Contains(text_lower, Chars("industry bar"))
                \/ Contains(text_lower, Chars("barred from the securities industry"))
                \/ Contains(text_lower, Chars("barred from associating"))
                \/ Contains(text_lower, Chars("prohibited from participating"))
                \/ /\ Contains(text_lower, Chars("prohibit"))
                   /\ Contains(text_lower, Chars("trading"))
                \/ /\ Contains(text_lower, Chars("prohibited from"))
                   /\ Contains(text_lower, Chars("trading"))
                \/ /\ Contains(text_lower, Chars("restrict"))
                   /\ Contains(text_lower, Chars("trading"))
                \/ Contains(text_lower, Chars("trading in any brokerage account"))))

\* GroundTruth(...): the amounts are exact decimals or None.  The arguments are
\* evaluated in order, and the first that raises ends the call
extract(text) ==
    Local(extract_resolution_type(text), LAMBDA resolution_type :
        IF resolution_type = AttributeError THEN AttributeError
        ELSE Local(<<extract_disgorgement_amount(text), extract_penalty_amount(text),
                     extract_prejudgment_interest(text), extract_has_injunction(text),
                     extract_has_officer_director_bar(text),
                     extract_has_conduct_restriction(text)>>,
                   LAMBDA rest :
                        IF \E i \in 1..Len(rest) : rest[i] = AttributeError
                        THEN AttributeError
                        ELSE [resolution_type |-> resolution_type,
                              disgorgement_amount |-> rest[1],
                              penalty_amount |-> rest[2],
                              prejudgment_interest |-> rest[3],
                              has_injunction |-> rest[4],
                              has_officer_director_bar |-> rest[5],
                              has_conduct_restriction |-> rest[6]]))

---------------------------------------------------------------------------
(* The texts given to the extractor *)

\* The most fragments a text is made of
MaxFragments == 2

\* Filler that puts what follows "disgorgement of" and a space just outside the
\* 200-character window, or at its very end
FarFiller == [i \in 1..(Window - Len(Chars("disgorgement of"))) |-> "x"]
NearFiller == [i \in 1..(Window - Len(Chars("disgorgement of")) - 3) |-> "x"]

ResolutionFragments ==
    {Chars("settled action"), Chars("Consent"), Chars("judgment"),
     Chars("Final Judgment"), Chars("jury"), Chars("Verdict"), Chars("DISMISSED"),
     Chars("charges"), Chars("prejudgment interest")}

DisgorgementFragments ==
    {Chars("disgorgement of $373,885"), Chars("Disgorge $7"), Chars("disgorgement of"),
     Chars("$2 Million"), Chars("$3\nbillion"), Chars("disgorgement of $,"),
     Chars("disgorgement of $7 and $1.5 million"), FarFiller \o Chars("$9"),
     NearFiller \o Chars("$9")}

PenaltyInterestFragments ==
    {Chars("civil penalty of $112,165"), Chars("Penalty of $7"),
     Chars("civil monetary penalty"), Chars("prejudgment interest of $22,629.34"),
     Chars("pre-judgment interest of"), Chars("prejudgment interest"),
     Chars("$,"), Chars("$ 2 million"), Chars("$")}

FlagFragments ==
    {Chars("permanent injunction"), Chars("Enjoined"), Chars("officer"),
     Chars("Director"), Chars("barred"), Chars("trading"), Chars("prohibited from"),
     Chars("industry bar"), Chars("barred from serving as an officer")}

\* " ".join(fragments)
RECURSIVE Join(_)
Join(fragments) ==
    IF fragments = <<>> THEN <<>>
    ELSE IF Len(fragments) = 1 THEN fragments[1]
    ELSE Head(fragments) \o <<" ">> \o Join(Tail(fragments))

\* The sample text of the module's example
SampleText ==
    Chars("\n    On December 16, 2025, the SEC filed settled action against John Doe.")
    \o Chars("\n    The defendant has consented to the entry of a final judgment that includes")
    \o Chars("\n    disgorgement of $373,885, prejudgment interest of $22,629.34, and a civil ")
    \o Chars("\n    penalty of $112,165. The judgment also includes a permanent injunction")
    \o Chars("\n    against future violations and bars the defendant from serving as an officer")
    \o Chars("\n    or director of any public company.\n    ")

\* None, the empty text, the sample, a text that is no str, and up to
\* MaxFragments fragments of one kind
Texts ==
    {PyNone, PyStr(SampleText), PyNum(0), PyNum(10)}
    \cup {PyStr(Join(f)) :
            f \in UNION {[1..k -> topic] :
                            k \in 0..MaxFragments,
                            topic \in {ResolutionFragments, DisgorgementFragments,
                                       PenaltyInterestFragments, FlagFragments}}}

\* An extractor and the text of one case
InitExtract ==
    /\ tolerance = DefaultTolerance
    /\ predicted = EmptyDict
    /\ ground_truth = EmptyDict
    /\ pc = "ready"
    /\ result = PredictionResult(EmptyDict, EmptyDict)
    /\ results = <<>>
    /\ score = NoScore
    /\ args \in {[fn |-> "extract", text |-> t] : t \in Texts}
    /\ ret = PyNone
    /\ files = NoFiles
    /\ trace = <<>>

\* ret = extractor.extract(text)
Extract ==
    /\ pc = "ready"
    /\ args.fn = "extract"
    /\ \E ground_truth_out \in {extract(args.text)} :
          IF ground_truth_out = AttributeError
          THEN pc' = "raised" /\ UNCHANGED ret
          ELSE pc' = "returned" /\ ret' = ground_truth_out
    /\ UNCHANGED <<tolerance, predicted, ground_truth, result, results, score, args,
                 files, trace>>

NextExtract == Extract

\* One text extracted
SpecExtract == InitExtract /\ [][NextExtract]_vars

---------------------------------------------------------------------------
(* Claims about the extractor, under SpecExtract *)

\* The characters of the text at hand, none for a text that is no str
TextChars == IF args.text.t = "str" THEN args.text.s ELSE <<>>

\* The phrase (in lower case) stands in the text at index i, in any case
StandsAt(phrase, i) ==
    /\ i + Len(phrase) - 1 <= Len(TextChars)
    /\ \A k \in 1..Len(phrase) : LowerChar(TextChars[i + k - 1]) = phrase[k]

\* The text contains the phrase, in any case
Mentions(str) == \E i \in 1..Len(TextChars) : StandsAt(Chars(str), i)

\* C13: extract_resolution_type is a first-match-wins decision list over
\* case-insensitive substring tests: settled if the text contains "settled action"
\* or both "consent" and "judgment"; otherwise litigated if it contains "final
\* judgment", or both "jury" and "verdict", or "dismiss"; otherwise ongoing.  A
\* text with "consent" and "final judgment" is settled.
C13_ResolutionDecisionList ==
    (pc = "returned" /\ args.fn = "extract") =>
        /\ ret.resolution_type =
              IF Mentions("settled action") \/ (Mentions("consent") /\ Mentions("judgment"))
              THEN PyStr(S_settled)
              ELSE IF \/ Mentions("final judgment")
                      \/ Mentions("jury") /\ Mentions("verdict")
                      \/ Mentions("dismiss")
              THEN PyStr(S_litigated)
              ELSE PyStr(S_ongoing)
        /\ (Mentions("consent") /\ Mentions("final judgment")) =>
              ret.resolution_type = PyStr(S_settled)

\* C13 witness: a text with "Consent" and "Final Judgment" and no "settled action"
\* was extracted as settled
C13_Witness ==
    /\ pc = "returned"
    /\ args.fn = "extract"
    /\ args.text = PyStr(Chars("Consent Final Judgment"))
    /\ ret.resolution_type = PyStr(S_settled)

\* The keyword list of a monetary field
KeywordsOf(k) ==
    CASE k = "disgorgement_amount" -> DisgorgementKeywords
      [] k = "penalty_amount" -> PenaltyKeywords
      [] k = "prejudgment_interest" -> InterestKeywords

\* The 200 characters of the text from index i on
WindowAt(i) ==
    SubSeq(TextChars, i, IF i + 199 < Len(TextChars) THEN i + 199 ELSE Len(TextChars))

\* The dollar amounts of a window: for each "$" followed, after optional
\* whitespace, by digits and commas and an optional fraction, where it stands,
\* the number as written, and the power of ten of the unit after it
DollarAmounts(w) ==
    {[at |-> i,
      number |-> SubSeq(w, NumberSpan(w, i).start, NumberSpan(w, i).stop - 1),
      scale |-> IF MatchesAt(w, i, Chars("billion")) THEN 9
                ELSE IF MatchesAt(w, i, Chars("million")) THEN 6
                ELSE 0] :
        i \in {j \in 1..Len(w) : w[j] = "$" /\ NumberSpan(w, j).start > 0}}

\* The amount the claim prefers: the first in billions, else the first in
\* millions, else the first of all
Preferred(amounts) ==
    LET top == IF \E a \in amounts : a.scale = 9 THEN 9
               ELSE IF \E a \in amounts : a.scale = 6 THEN 6
               ELSE 0
        ofTop == {a \in amounts : top = 0 \/ a.scale = top}
        first == CHOOSE a \in ofTop : \A b \in ofTop : a.at <= b.at
    IN  [number |-> first.number, scale |-> top]

\* The number has a digit, so it can be parsed once its commas are stripped
Parsable(number) == \E i \in 1..Len(number) : IsDigit(number[i])

\* The value of a parsable number with its unit: the digits, the commas dropped,
\* shifted by the places after the point and by the unit
AmountValue(number, scale) ==
    LET dots == {i \in 1..Len(number) : number[i] = "."}
        places == IF dots = {} THEN 0 ELSE Len(number) - (CHOOSE i \in dots : TRUE)
    IN  Decimal(DigitsValue(SelectSeq(number, IsDigit)), scale - places)

\* The occurrences, as <<keyword index, text index>>, of the keywords of field k
\* whose window holds a dollar amount
OccurrencesWithAmount(k) ==
    {ki \in (1..Len(KeywordsOf(k))) \X (1..Len(TextChars)) :
        /\ StandsAt(KeywordsOf(k)[ki[1]], ki[2])
        /\ DollarAmounts(WindowAt(ki[2])) # {}}

\* The first of them: the earliest keyword of the list, then the earliest index
FirstOccurrence(occurrences) ==
    CHOOSE x \in occurrences :
        \A y \in occurrences : x[1] < y[1] \/ (x[1] = y[1] /\ x[2] <= y[2])

\* C14: for each monetary field, _extract_amount_after_keyword returns the amount
\* of the first occurrence, by keyword in list order and then by place in the
\* text, whose 200-character window holds a dollar amount; in that window a
\* "$N billion" is preferred to a "$N million" and that to a bare "$N", the first
\* of the preferred kind being taken, and thousands separators are stripped.  So an
\* earlier keyword of the list wins over a later one that stands earlier in the
\* text.  (Stated for the amounts that can be parsed; C15 is about the others.)
\* The sample text gives disgorgement 373885 and penalty 112165.
C14_FirstOccurrenceByKeywordOrder ==
    (pc = "returned" /\ args.fn = "extract") =>
        /\ \A k \in MonetaryKeys :
              OccurrencesWithAmount(k) # {} =>
                  LET first == FirstOccurrence(OccurrencesWithAmount(k))
                      amount == Preferred(DollarAmounts(WindowAt(first[2])))
                  IN  Parsable(amount.number) =>
                          ret[k] = AmountValue(amount.number, amount.scale)
        /\ args.text = PyStr(SampleText) =>
              /\ ret.disgorgement_amount = Decimal(373885, 0)
              /\ ret.penalty_amount = Decimal(112165, 0)

\* C14 witness: "penalty of" stands in the text before "civil penalty of", the
\* earlier keyword of the list, whose amount was returned
C14_Witness ==
    /\ pc = "returned"
    /\ args.fn = "extract"
    /\ args.text = PyStr(Chars("Penalty of $7 civil penalty of $112,165"))
    /\ ret.penalty_amount = Decimal(112165, 0)

\* Some occurrence of a keyword of field k is followed, in its window, by a dollar
\* amount that can be parsed
PairExists(k) ==
    \E ki \in OccurrencesWithAmount(k) :
        \E a \in DollarAmounts(WindowAt(ki[2])) : Parsable(a.number)

\* C15: _extract_amount_after_keyword returns null only if no keyword/amount pair
\* exists in the whole text: whenever some occurrence of a listed keyword is
\* followed, within its 200-character window, by a parsable dollar amount, the
\* result is not null, also when an earlier occurrence is followed by a dollar
\* sign with no parsable number; and without such a pair the result is null.
C15_NullOnlyWithoutPair ==
    (pc = "returned" /\ args.fn = "extract") =>
        \A k \in MonetaryKeys : (ret[k] = PyNone) <=> ~PairExists(k)

\* The phrases that set a flag
FlagTriggers(k) ==
    CASE k = "has_injunction" ->
            {"injunction", "injunctive relief", "enjoin", "permanently restrained",
             "permanent restraining"}
      [] k = "has_officer_director_bar" ->
            {"bar", "barred from serving as an officer",
             "barred from serving as a director", "officer and director bar", "o&d bar"}
      [] k = "has_conduct_restriction" ->
            {"conduct-based injunction", "trading restriction", "penny stock bar",
             "industry bar", "barred from the securities industry",
             "barred from associating", "prohibited from participating", "trading"}

\* C16: for every input text, extract returns a well-formed GroundTruth:
\* resolution_type is one of settled, litigated, ongoing; each monetary field is
\* null or a non-negative amount; each flag is a strict boolean, never null, and
\* false when no trigger phrase is present, whereas a monetary field without a
\* keyword/amount pair is null.
C16_WellFormedGroundTruth ==
    (pc = "returned" /\ args.fn = "extract") =>
        /\ ret.resolution_type \in {PyStr(S_settled), PyStr(S_litigated), PyStr(S_ongoing)}
        /\ \A k \in MonetaryKeys :
              /\ ret[k] = PyNone \/ ret[k].mantissa >= 0
              /\ OccurrencesWithAmount(k) = {} => ret[k] = PyNone
        /\ \A k \in BooleanKeys :
              /\ ret[k] \in {PyTrue, PyFalse}
              /\ (\A str \in FlagTriggers(k) : ~Mentions(str)) => ret[k] = PyFalse

\* C16 witness: a text with amounts and flags was extracted, an amount and a flag
\* found and an amount and a flag not
C16_Witness ==
    /\ pc = "returned"
    /\ args.fn = "extract"
    /\ args.text.t = "str"
    /\ ret.resolution_type = PyStr(S_ongoing)
    /\ ret.penalty_amount = Decimal(112165, 0)
    /\ ret.disgorgement_amount = PyNone
    /\ ret.has_injunction = PyFalse

\* C17: for an empty or null text, extract does not raise and returns
\* resolution_type ongoing, the three monetary fields null and the three flags
\* false.
C17_EmptyTextDefaults ==
    (args.fn = "extract" /\ args.text \in {PyNone, PyStr(<<>>)}) =>
        /\ pc # "raised"
        /\ pc = "returned" =>
              ret = [resolution_type |-> PyStr(S_ongoing),
                     disgorgement_amount |-> PyNone,
                     penalty_amount |-> PyNone,
                     prejudgment_interest |-> PyNone,
                     has_injunction |-> PyFalse,
                     has_officer_director_bar |-> PyFalse,
                     has_conduct_restriction |-> PyFalse]

\* C17 witness: the null text was extracted
C17_Witness ==
    /\ pc = "returned"
    /\ args.fn = "extract"
    /\ args.text = PyNone
    /\ ret.resolution_type = PyStr(S_ongoing)

---------------------------------------------------------------------------
(* parse_llm_response                                                      *)
(* A response text is a sequence of lexemes, written one space apart.  The *)
(* lexemes are those the three strategies tell apart: the two fences, the  *)
(* braces, object keys with their colon, scalars, the comma, prose, and a  *)
(* run of opening brackets longer than the interpreter's recursion limit.  *)

\* The fences; a TLA+ string cannot hold a backtick, so an apostrophe stands for it
Fence == "'''"
JsonFence == "'''json"
KeyLexemes == {"\"resolution_type\":", "\"has_injunction\":", "\"other\":"}
ScalarLexemes == {"\"settled\"", "true", "5"}
Prose == "Here is"
\* '[' * 100000
DeepBrackets == "[[[[..."

\* The key of a key lexeme
KeyIn(lexeme) ==
    CASE lexeme = "\"resolution_type\":" -> "resolution_type"
      [] lexeme = "\"has_injunction\":" -> "has_injunction"
      [] lexeme = "\"other\":" -> "other"

\* The value of a scalar lexeme
ScalarOf(lexeme) ==
    CASE lexeme = "\"settled\"" -> PyStr(S_settled)
      [] lexeme = "true" -> PyTrue
      [] lexeme = "5" -> PyNum(5)

\* The outcomes of decoding: a value and the index after it, or an exception
Decoded(value, next) == [kind |-> "ok", value |-> value, next |-> next]
JSONDecodeError == [kind |-> "JSONDecodeError", value |-> PyNone, next |-> 0]
RecursionError == [kind |-> "RecursionError", value |-> PyNone, next |-> 0]

\* dict[key] = value
SetItem(dict, key, value) ==
    [k \in DOMAIN dict \cup {key} |-> IF k = key THEN value ELSE dict[k]]

\* The JSON decoder at lexeme i: a scalar, or an object of "key: value" members
\* (a later member replaces an earlier one of the same key); it descends into
\* brackets one call per bracket, which for DeepBrackets exceeds the recursion
\* limit before the end of the run is seen
RECURSIVE scan_once(_, _), JSONObject(_, _, _)
scan_once(s, idx) ==
    IF idx > Len(s) THEN JSONDecodeError
    ELSE IF s[idx] \in ScalarLexemes THEN Decoded(ScalarOf(s[idx]), idx + 1)
    ELSE IF s[idx] = DeepBrackets THEN RecursionError
    ELSE IF s[idx] # "{" THEN JSONDecodeError
    ELSE IF idx + 1 <= Len(s) /\ s[idx + 1] = "}" THEN Decoded(EmptyDict, idx + 2)
    ELSE JSONObject(s, idx + 1, EmptyDict)

JSONObject(s, idx, pairs) ==
    IF idx > Len(s) \/ s[idx] \notin KeyLexemes THEN JSONDecodeError
    ELSE Local(scan_once(s, idx + 1), LAMBDA member :
            IF member.kind # "ok" THEN member
            ELSE IF member.next > Len(s) THEN JSONDecodeError
            ELSE IF s[member.next] = "}"
            THEN Decoded(SetItem(pairs, KeyIn(s[idx]), member.value), member.next + 1)
            ELSE IF s[member.next] = ","
            THEN JSONObject(s, member.next + 1,
                            SetItem(pairs, KeyIn(s[idx]), member.value))
            ELSE JSONDecodeError)

\* json.loads: one value and nothing after it
json_loads(s) ==
    Local(scan_once(s, 1), LAMBDA obj :
        IF obj.kind = "ok" /\ obj.next # Len(s) + 1 THEN JSONDecodeError ELSE obj)

\* The fenced block searched for at source line 394, with re.DOTALL: group 1 of the
\* first match, as <<start, stop>> with stop exclusive, or <<0, 0>> for no match.
\* The closing backticks are the next ones, which may open another block.
json_match(response_text) ==
    LET opens == {i \in 1..Len(response_text) : response_text[i] = JsonFence}
    IN  IF opens = {} THEN <<0, 0>>
        ELSE LET open == CHOOSE i \in opens : \A j \in opens : i <= j
                 closes == {i \in (open + 1)..Len(response_text) :
                               response_text[i] \in {Fence, JsonFence}}
             IN  IF closes = {} THEN <<0, 0>>
                 ELSE <<open + 1, CHOOSE i \in closes : \A j \in closes : i <= j>>

\* The next brace from index i on, or Len + 1 for none
RECURSIVE NextBrace(_, _)
NextBrace(s, i) ==
    IF i > Len(s) \/ s[i] \in {"{", "}"} THEN i ELSE NextBrace(s, i + 1)

\* json_pattern r'\{[^{}]*(?:\{[^{}]*\}[^{}]*)*\}' from the inner position i on:
\* the index after the match, 0 if it fails
RECURSIVE MatchInner(_, _)
MatchInner(s, i) ==
    Local(NextBrace(s, i), LAMBDA brace :
        IF brace > Len(s) THEN 0
        ELSE IF s[brace] = "}" THEN brace + 1
        ELSE Local(NextBrace(s, brace + 1), LAMBDA close :
                IF close > Len(s) \/ s[close] # "}" THEN 0
                ELSE MatchInner(s, close + 1)))

\* re.findall(json_pattern, response_text, re.DOTALL) from index pos on: the
\* matches, leftmost first and not overlapping
RECURSIVE matches(_, _)
matches(response_text, pos) ==
    IF pos > Len(response_text) THEN <<>>
    ELSE IF response_text[pos] # "{" THEN matches(response_text, pos + 1)
    ELSE Local(MatchInner(response_text, pos + 1), LAMBDA stop :
            IF stop = 0 THEN matches(response_text, pos + 1)
            ELSE <<SubSeq(response_text, pos, stop - 1)>>
                     \o matches(response_text, stop))

\* FirstExpected accepting a match whatever its keys: C18 tells the two apart
RECURSIVE FirstParsed(_, _)
FirstParsed(found, i) ==
    IF i > Len(found) THEN Decoded(EmptyDict, 0)
    ELSE Local(json_loads(found[i]), LAMBDA parsed :
            IF parsed.kind = "JSONDecodeError" THEN FirstParsed(found, i + 1)
            ELSE parsed)

\* The loop of lines 410-416 over the matches from index i on
RECURSIVE FirstExpected(_, _)
FirstExpected(found, i) ==
    IF i > Len(found) THEN Decoded(EmptyDict, 0)
    ELSE Local(json_loads(found[i]), LAMBDA parsed :
            IF parsed.kind = "JSONDecodeError" THEN FirstExpected(found, i + 1)
            ELSE IF parsed.kind # "ok" THEN parsed
            ELSE IF \/ "resolution_type" \in DOMAIN parsed.value
                    \/ "has_injunction" \in DOMAIN parsed.value
            THEN parsed
            ELSE FirstExpected(found, i + 1))

\* The second and third strategies
ParseWhole(response_text) ==
    Local(json_loads(response_text), LAMBDA whole :
        IF whole.kind # "JSONDecodeError" THEN whole
        ELSE Local(matches(response_text, 1), LAMBDA found : FirstExpected(found, 1)))

\* The decoded value, or the exception that leaves the function
parse_llm_response(response_text) ==
    Local(json_match(response_text), LAMBDA group :
        IF group = <<0, 0>> THEN ParseWhole(response_text)
        ELSE Local(json_loads(SubSeq(response_text, group[1], group[2] - 1)),
                   LAMBDA block :
                       IF block.kind # "JSONDecodeError" THEN block
                       ELSE ParseWhole(response_text)))

---------------------------------------------------------------------------
(* The responses given to the parser *)

MaxParts == 3

\* The parts responses are made of
ResponseParts ==
    {<<JsonFence>>,
     <<Fence>>,
     <<JsonFence, "{", "\"other\":", "5", "}", Fence>>,
     <<"{", "\"resolution_type\":", "\"settled\"", "}">>,
     <<"{", "\"other\":", "5", "}">>,
     <<"{", "\"has_injunction\":", "true">>,
     <<"{", "\"other\":">>,
     <<"{", "\"resolution_type\":", "{", "\"other\":", "5", "}", "}">>,
     <<",", "\"other\":", "true">>,
     <<"}">>,
     <<"5">>,
     <<Prose>>,
     <<DeepBrackets>>}

RECURSIVE Concat(_)
Concat(parts) == IF parts = <<>> THEN <<>> ELSE Head(parts) \o Concat(Tail(parts))

Responses == {Concat(parts) : parts \in UNION {[1..k -> ResponseParts] : k \in 0..MaxParts}}

InitParse ==
    /\ tolerance = DefaultTolerance
    /\ predicted = EmptyDict
    /\ ground_truth = EmptyDict
    /\ pc = "ready"
    /\ result = PredictionResult(EmptyDict, EmptyDict)
    /\ results = <<>>
    /\ score = NoScore
    /\ args \in {[fn |-> "parse_llm_response", response_text |-> r] : r \in Responses}
    /\ ret = PyNone
    /\ files = NoFiles
    /\ trace = <<>>

\* parse_llm_response(response_text) returns or raises
ParseLlmResponse ==
    /\ pc = "ready"
    /\ args.fn = "parse_llm_response"
    /\ \E parsed \in {parse_llm_response(args.response_text)} :
          IF parsed.kind = "ok"
          THEN pc' = "returned" /\ ret' = parsed.value
          ELSE pc' = "raised" /\ UNCHANGED ret
    /\ UNCHANGED <<tolerance, predicted, ground_truth, result, results, score, args,
                 files, trace>>

NextParse == ParseLlmResponse

SpecParse == InitParse /\ [][NextParse]_vars

---------------------------------------------------------------------------
(* Claims about parse_llm_response, under SpecParse *)

\* The decoding of the first fenced block, a JSONDecodeError when there is none
BlockDecoded ==
    LET group == json_match(args.response_text) IN
    IF group = <<0, 0>> THEN JSONDecodeError
    ELSE json_loads(SubSeq(args.response_text, group[1], group[2] - 1))

\* The decoding of the whole response
WholeDecoded == json_loads(args.response_text)

\* The brace-delimited candidates, in text order, that parse as JSON and hold the
\* key resolution_type or has_injunction
AcceptedCandidates ==
    SelectSeq(matches(args.response_text, 1),
              LAMBDA candidate :
                  /\ json_loads(candidate).kind = "ok"
                  /\ \/ "resolution_type" \in DOMAIN json_loads(candidate).value
                     \/ "has_injunction" \in DOMAIN json_loads(candidate).value)

\* C18: parse_llm_response applies three strategies in order, the first success
\* winning: the content of the json fenced block when it parses as JSON, in
\* preference to any other JSON of the response; otherwise the whole response when
\* it parses as JSON; otherwise the first brace-delimited candidate, in text order,
\* that parses as JSON and holds the key resolution_type or has_injunction, a
\* candidate that parses with neither key being skipped.
C18_StrategiesInOrder ==
    (pc = "returned" /\ args.fn = "parse_llm_response") =>
        IF BlockDecoded.kind = "ok" THEN ret = BlockDecoded.value
        ELSE IF WholeDecoded.kind = "ok" THEN ret = WholeDecoded.value
        ELSE IF AcceptedCandidates # <<>>
        THEN ret = json_loads(AcceptedCandidates[1]).value
        ELSE TRUE

\* C18 witness: after prose, an object with neither key and then one with
\* resolution_type; the second was returned
C18_Witness ==
    /\ pc = "returned"
    /\ args.fn = "parse_llm_response"
    /\ args.response_text =
          <<Prose, "{", "\"other\":", "5", "}",
            "{", "\"resolution_type\":", "\"settled\"", "}">>
    /\ ret = [k \in {"resolution_type"} |-> PyStr(S_settled)]

\* C19: given a response with no valid JSON anywhere (no fenced block that parses,
\* the whole text does not parse, no brace candidate parses with an expected key),
\* parse_llm_response returns an empty mapping and does not raise.
C19_NoJsonGivesEmpty ==
    ( /\ args.fn = "parse_llm_response"
      /\ pc # "ready"
      /\ BlockDecoded.kind # "ok"
      /\ WholeDecoded.kind # "ok"
      /\ AcceptedCandidates = <<>> )
    => (pc = "returned" /\ ret = EmptyDict)

---------------------------------------------------------------------------
(* The empty prediction, under SpecCompare *)

\* C20 as stated: compare_single called with the empty prediction yields null for
\* all seven correctness fields, so that the case is counted in no accuracy.
C20_Original ==
    (predicted = EmptyDict /\ pc \in {"returned", "collected"}) =>
        /\ \A f \in AllFields : result[f] = PyNone
        /\ score # NoScore =>
              \A f \in {"resolution_type_correct"} \cup MonetaryFields :
                  ScorableCount(score, f) = 0

\* The ground truth leaves the field unscorable: a flag that is null or missing,
\* an amount that normalises to null, a resolution type that normalises to ''
GtUnscorable(f) ==
    IF f \in FlagFields THEN GtAbsent(KeyOf(f))
    ELSE IF f \in MonetaryFields
    THEN _normalize_monetary(Get(ground_truth, KeyOf(f))) = PyNone
    ELSE _normalize_resolution_type(Get(ground_truth, KeyOf(f))) = <<>>

\* C20, amended: compare_single called with the empty prediction yields false for
\* every correctness field the ground truth makes scorable and null for the
\* others, so that calculate_model_score counts the case as incorrect in the
\* accuracy of each scorable field.
C20_EmptyPredictionIncorrect ==
    (predicted = EmptyDict /\ pc \in {"returned", "collected"}) =>
        /\ \A f \in AllFields :
              result[f] = IF GtUnscorable(f) THEN PyNone ELSE PyFalse
        /\ score # NoScore =>
              /\ results = <<result>>
              /\ \A f \in {"resolution_type_correct"} \cup MonetaryFields :
                    ScorableCount(score, f) = IF GtUnscorable(f) THEN 0 ELSE 1
              /\ \A f \in AllFields : IsRatio(AccuracyOf(score, f), 0, 1)

\* C20 witness: the empty prediction was compared with a ground truth holding all
\* seven fields and scored, every field false and counted
C20_Witness ==
    /\ predicted = EmptyDict
    /\ pc = "collected"
    /\ score # NoScore
    /\ \A k \in Keys : Get(ground_truth, k) = TypicalGroundTruth(k)
    /\ \A f \in AllFields : result[f] = PyFalse
    /\ score.resolution_scorable = 1
    /\ score.overall_score = Zero

---------------------------------------------------------------------------
(* A caller using one extractor and one calculator for several calls *)

\* The number of calls of a session
MaxCalls == 3

\* The texts and the cases of a session
CallTexts == {PyNone, PyStr(Chars("Consent judgment")), PyStr(Chars("Penalty of $7"))}

CallCases ==
    {[p |-> [k \in Keys |-> TypicalRight(k)], g |-> [k \in Keys |-> TypicalGroundTruth(k)]],
     [p |-> [k \in Keys |-> TypicalWrong(k)], g |-> [k \in Keys |-> TypicalGroundTruth(k)]],
     [p |-> EmptyDict, g |-> [k \in {"resolution_type"} |-> PyStr(S_settled)]]}

\* One call as the caller saw it
Call(fn, arguments, value) == [fn |-> fn, arguments |-> arguments, value |-> value]

InitCalls ==
    /\ tolerance = DefaultTolerance
    /\ predicted = EmptyDict
    /\ ground_truth = EmptyDict
    /\ pc = "idle"
    /\ result = PredictionResult(EmptyDict, EmptyDict)
    /\ results = <<>>
    /\ score = NoScore
    /\ args = NoArgs
    /\ ret = PyNone
    /\ files = NoFiles
    /\ trace = <<>>

\* extractor.extract(text), for a text of the caller's
CallExtract ==
    /\ Len(trace) < MaxCalls
    /\ \E text \in CallTexts :
          \E ground_truth_out \in {extract(text)} :
              /\ args' = [fn |-> "extract", text |-> text]
              /\ ret' = ground_truth_out
              /\ trace' = Append(trace, Call("extract", <<text>>, ground_truth_out))
    /\ UNCHANGED <<tolerance, predicted, ground_truth, pc, result, results, score, files>>

\* calculator.compare_single(case_id, predicted, ground_truth), for a case of the
\* caller's, who keeps the result in its list
CallCompareSingle ==
    /\ Len(trace) < MaxCalls
    /\ \E c \in CallCases :
          \E out \in {compare_single(c.p, c.g, tolerance)} :
              /\ ~out.raised
              /\ predicted' = c.p
              /\ ground_truth' = c.g
              /\ result' = out.value
              /\ results' = Append(results, out.value)
              /\ trace' = Append(trace, Call("compare_single", <<c.p, c.g, tolerance>>,
                                             out.value))
    /\ UNCHANGED <<tolerance, pc, score, args, ret, files>>

\* calculator.calculate_model_score(model_name, results), for the caller's list
CallCalculateModelScore ==
    /\ Len(trace) < MaxCalls
    /\ \E model_score \in {calculate_model_score(results)} :
          /\ score' = model_score
          /\ trace' = Append(trace, Call("calculate_model_score", <<results>>, model_score))
    /\ UNCHANGED <<tolerance, predicted, ground_truth, pc, result, results, args, ret, files>>

NextCalls == CallExtract \/ CallCompareSingle \/ CallCalculateModelScore

SpecCalls == InitCalls /\ [][NextCalls]_vars

---------------------------------------------------------------------------
(* Claims about the calls of a session, under SpecCalls *)

\* The values compare_single returned so far, in order
RECURSIVE Returned(_)
Returned(calls) ==
    IF calls = <<>> THEN <<>>
    ELSE Returned(SubSeq(calls, 1, Len(calls) - 1))
         \o (IF calls[Len(calls)].fn = "compare_single"
             THEN <<calls[Len(calls)].value>> ELSE <<>>)

---------------------------------------------------------------------------
(* ModelScore.to_dict *)

\* round truncating instead of rounding: C22 tells the two apart
round_down(number, ndigits) ==
    Frac((100 * number.num) \div number.den, 100)

\* round(number, 2) of a percentage: the nearest hundredth, the even one of two
\* equally near
round(number, ndigits) ==
    LET scaled == 100 * number.num
        lower == scaled \div number.den
        twice == 2 * (scaled % number.den)
    IN  Frac(IF twice > number.den \/ (twice = number.den /\ lower % 2 = 1)
             THEN lower + 1 ELSE lower,
             100)

\* The name of the model under evaluation, which the calculator passes through
model_name == "model"

\* self.to_dict()
to_dict(self) ==
    [model_name |-> model_name,
     overall_score |-> round(self.overall_score, 2),
     individual_scores |->
        [resolution_type |-> round(self.resolution_type_accuracy, 2),
         disgorgement |-> round(self.disgorgement_accuracy, 2),
         penalty |-> round(self.penalty_accuracy, 2),
         prejudgment_interest |-> round(self.interest_accuracy, 2),
         monetary_average |-> round(self.monetary_accuracy, 2),
         has_injunction |-> round(self.injunction_accuracy, 2),
         has_officer_director_bar |-> round(self.officer_bar_accuracy, 2),
         has_conduct_restriction |-> round(self.conduct_restriction_accuracy, 2)],
     scorable_counts |->
        [total_cases |-> self.total_cases,
         resolution_type |-> self.resolution_scorable,
         disgorgement |-> self.disgorgement_scorable,
         penalty |-> self.penalty_scorable,
         interest |-> self.interest_scorable]]

\* The comparisons the serialised scores are computed from: every field right,
\* every field wrong, only the resolution type (wrong), only two amounts (one
\* right, one wrong), only a flag (right)
SerialiseResults ==
    {compare_single(c.p, c.g, DefaultTolerance).value : c \in CallCases}
    \cup {compare_single(
              [k \in {"disgorgement_amount", "penalty_amount"} |->
                  IF k = "penalty_amount" THEN TypicalWrong(k) ELSE TypicalRight(k)],
              [k \in {"disgorgement_amount", "penalty_amount"} |-> TypicalGroundTruth(k)],
              DefaultTolerance).value,
          compare_single(
              [k \in {"has_injunction"} |-> TypicalRight(k)],
              [k \in {"has_injunction"} |-> TypicalGroundTruth(k)],
              DefaultTolerance).value}

\* A ModelScore computed from up to MaxResults comparisons, not yet serialised
InitSerialise ==
    /\ tolerance = DefaultTolerance
    /\ predicted = EmptyDict
    /\ ground_truth = EmptyDict
    /\ pc = "scored"
    /\ result = PredictionResult(EmptyDict, EmptyDict)
    /\ \E n \in 0..MaxResults : results \in [1..n -> SerialiseResults]
    /\ score = calculate_model_score(results)
    /\ args = NoArgs
    /\ ret = PyNone
    /\ files = NoFiles
    /\ trace = <<>>

\* ret = score.to_dict()
ToDict ==
    /\ pc = "scored"
    /\ args' = [fn |-> "to_dict"]
    /\ ret' = to_dict(score)
    /\ pc' = "returned"
    /\ UNCHANGED <<tolerance, predicted, ground_truth, result, results, score, files, trace>>

NextSerialise == ToDict

SpecSerialise == InitSerialise /\ [][NextSerialise]_vars

---------------------------------------------------------------------------
(* Claims about to_dict, under SpecSerialise *)

IndividualNames ==
    {"resolution_type", "disgorgement", "penalty", "prejudgment_interest",
     "monetary_average", "has_injunction", "has_officer_director_bar",
     "has_conduct_restriction"}

\* The ModelScore's percentage serialised under a name
PercentageOf(sc, name) ==
    CASE name = "resolution_type" -> sc.resolution_type_accuracy
      [] name = "disgorgement" -> sc.disgorgement_accuracy
      [] name = "penalty" -> sc.penalty_accuracy
      [] name = "prejudgment_interest" -> sc.interest_accuracy
      [] name = "monetary_average" -> sc.monetary_accuracy
      [] name = "has_injunction" -> sc.injunction_accuracy
      [] name = "has_officer_director_bar" -> sc.officer_bar_accuracy
      [] name = "has_conduct_restriction" -> sc.conduct_restriction_accuracy

\* The fraction x is a number of hundredths at most half a hundredth from y
RoundedFrom(x, y) ==
    /\ 100 % x.den = 0
    /\ 200 * Abs(x.num * y.den - y.num * x.den) <= x.den * y.den

\* C22 as stated: to_dict gives a mapping with overall_score, individual_scores
\* holding the eight named percentages, and scorable_counts holding four named
\* counts.
C22_Original ==
    (pc = "returned" /\ args.fn = "to_dict") =>
        /\ "overall_score" \in DOMAIN ret
        /\ DOMAIN ret.individual_scores = IndividualNames
        /\ Cardinality(DOMAIN ret.scorable_counts) = 4

\* C22, amended: to_dict gives a mapping with model_name, overall_score,
\* individual_scores holding the eight named percentages, each rounded to two
\* decimals, and scorable_counts holding five named counts: total_cases and the
\* scorable counts of resolution_type, disgorgement, penalty and interest.
C22_SerialisedScore ==
    (pc = "returned" /\ args.fn = "to_dict") =>
        /\ DOMAIN ret = {"model_name", "overall_score", "individual_scores",
                         "scorable_counts"}
        /\ RoundedFrom(ret.overall_score, score.overall_score)
        /\ DOMAIN ret.individual_scores = IndividualNames
        /\ \A name \in IndividualNames :
              RoundedFrom(ret.individual_scores[name], PercentageOf(score, name))
        /\ ret.scorable_counts =
              [total_cases |-> Len(results),
               resolution_type |-> score.resolution_scorable,
               disgorgement |-> score.disgorgement_scorable,
               penalty |-> score.penalty_scorable,
               interest |-> score.interest_scorable]

\* C22 witness: a score over three comparisons was serialised, two thirds of the
\* injunction flags right
C22_Witness ==
    /\ pc = "returned"
    /\ args.fn = "to_dict"
    /\ score.injunction_accuracy = Frac(200, 3)
    /\ ret.individual_scores.has_injunction = Frac(6667, 100)
    /\ ret.scorable_counts.total_cases = 3

(***************************************************************************)
(* The results file of the Google evaluation and the scripts that maintain *)
(* it: evaluate_missing_cases, deduplicate_google_results,                  *)
(* verify_google_results and complete_google_evaluation.  The scripts read *)
(* the dataset and read and rewrite the results file; of an entry of the   *)
(* predictions list they look at case_id and success only.                 *)
(***************************************************************************)
MaxCases == 3
MaxPredictions == 5

\* The case ids in increasing order.  The dataset builder takes a case's id
\* from its release number, 'unknown' when it has none, so an id is a
\* non-empty string and two cases can share one.
CaseIdOrder == <<"A", "B">>
CaseIds == {CaseIdOrder[k] : k \in DOMAIN CaseIdOrder}

\* An entry of the predictions list as run_single returns it; n stands for
\* the rest of its content (raw response, comparison, timing).
Prediction(case_id, success, n) == [case_id |-> case_id, success |-> success, n |-> n]

\* The results file as EvaluationResult.to_dict and the scripts write it
ResultsFile(predictions, total_cases) ==
    [predictions |-> predictions, total_cases |-> total_cases]

\* [p for p in predictions if p.get('success')]
successful(predictions) == SelectSeq(predictions, LAMBDA p : p.success)

\* {p.get('case_id') for p in predictions}
case_ids_of(predictions) == {predictions[i].case_id : i \in DOMAIN predictions}

\* the largest n among the entries, 0 for none
MaxSerial(predictions) ==
    IF predictions = <<>> THEN 0
    ELSE CHOOSE m \in {predictions[i].n : i \in DOMAIN predictions} :
             \A i \in DOMAIN predictions : predictions[i].n <= m

\* list.sort(key=lambda x: x['case_id']): stable, so the cases of one id keep
\* their order
sorted_by_case_id(cases) ==
    Concat([k \in DOMAIN CaseIdOrder |->
               SelectSeq(cases, LAMBDA case_id : case_id = CaseIdOrder[k])])

\* pred_list[0]: the first entry of a case_id
KeptIndexFirst(predictions, case_id) ==
    CHOOSE i \in DOMAIN predictions :
        /\ predictions[i].case_id = case_id
        /\ \A j \in 1..(i - 1) : predictions[j].case_id # case_id

\* pred_list[-1] after the sort by index: the last entry of a case_id
KeptIndex(predictions, case_id) ==
    CHOOSE i \in DOMAIN predictions :
        /\ predictions[i].case_id = case_id
        /\ \A j \in (i + 1)..Len(predictions) : predictions[j].case_id # case_id

\* The deduplicated list of the three scripts: the entries are grouped by
\* case_id in a dict, whose keys come out in the order of their first entry,
\* and one entry is kept for each key.  (An entry with an empty case_id would
\* be dropped; there is none.)
deduplicated(predictions) ==
    LET indices == [i \in DOMAIN predictions |-> i]
        keys == SelectSeq(indices,
                          LAMBDA i : \A j \in 1..(i - 1) :
                                         predictions[j].case_id # predictions[i].case_id)
    IN  [k \in DOMAIN keys |->
            predictions[KeptIndex(predictions, predictions[keys[k]].case_id)]]

\* The datasets: up to MaxCases cases, given by their ids
Datasets == UNION {[1..n -> CaseIds] : n \in 1..MaxCases}

\* What run_evaluation leaves for a dataset: one entry per case in order,
\* each successful or not, and the number of successes as total_cases
EvaluationsOf(cases) ==
    {ResultsFile([i \in DOMAIN cases |-> Prediction(cases[i], ok[i], i)],
                 Cardinality({i \in DOMAIN cases : ok[i]})) :
        ok \in [DOMAIN cases -> BOOLEAN]}

\* Before the scripts run: a dataset, and either no results file or the one
\* of an evaluation of that dataset
InitResults ==
    /\ tolerance = DefaultTolerance
    /\ predicted = EmptyDict
    /\ ground_truth = EmptyDict
    /\ pc = "idle"
    /\ result = PredictionResult(EmptyDict, EmptyDict)
    /\ results = <<>>
    /\ score = NoScore
    /\ args = NoArgs
    /\ ret = PyNone
    /\ trace = <<>>
    /\ \E cases \in Datasets :
          \/ files = [dataset |-> cases]
          \/ \E written \in EvaluationsOf(cases) :
                files = [dataset |-> cases, results |-> written]

\* evaluate_missing_cases.main up to its loop: the cases to run are the
\* dataset's cases whose id has no successful entry in the results file
EvaluateMissingStart ==
    /\ pc = "idle"
    /\ LET all_cases == files.dataset
           all_case_ids == {all_cases[i] : i \in DOMAIN all_cases}
           existing_predictions ==
               IF "results" \in DOMAIN files THEN files.results.predictions ELSE <<>>
           evaluated_ids == case_ids_of(successful(existing_predictions))
           missing_ids == all_case_ids \ evaluated_ids
           missing_cases ==
               sorted_by_case_id(SelectSeq(all_cases,
                                           LAMBDA case_id : case_id \in missing_ids))
       IN  /\ MaxSerial(existing_predictions) + Len(missing_cases) <= MaxPredictions
           /\ args' = [fn |-> "evaluate_missing_cases",
                       existing_predictions |-> existing_predictions,
                       missing_cases |-> missing_cases,
                       predictions |-> <<>>]
           /\ pc' = IF missing_ids = {} THEN "idle" ELSE "evaluating"
    /\ UNCHANGED <<tolerance, predicted, ground_truth, result, results, score, ret,
                   files, trace>>

\* One turn of its loop: the case is run, its entry appended to the new
\* predictions, and the results file rewritten with the existing predictions
\* followed by the new ones
EvaluateMissingCase ==
    /\ pc = "evaluating"
    /\ \E success \in BOOLEAN :
          LET i == Len(args.predictions) + 1
              existing_predictions == args.existing_predictions
              run_result == Prediction(args.missing_cases[i], success,
                                       MaxSerial(existing_predictions) + i)
              predictions == Append(args.predictions, run_result)
              all_predictions == existing_predictions \o predictions
          IN  /\ args' = [args EXCEPT !.predictions = predictions]
              /\ files' = SetItem(files, "results",
                                  ResultsFile(all_predictions,
                                              Len(successful(all_predictions))))
              /\ pc' = IF i = Len(args.missing_cases) THEN "idle" ELSE "evaluating"
    /\ UNCHANGED <<tolerance, predicted, ground_truth, result, results, score, ret, trace>>

\* deduplicate_results()
DeduplicateResults ==
    /\ pc = "idle"
    /\ IF "results" \notin DOMAIN files
       THEN /\ args' = [fn |-> "deduplicate_results", saved |-> FALSE,
                        predictions |-> <<>>]
            /\ UNCHANGED files
       ELSE LET predictions == files.results.predictions
            IN  /\ args' = [fn |-> "deduplicate_results", saved |-> TRUE,
                            predictions |-> predictions]
                /\ files' = [files EXCEPT !.results =
                                ResultsFile(deduplicated(predictions),
                                            Len(deduplicated(predictions)))]
    /\ UNCHANGED <<tolerance, predicted, ground_truth, pc, result, results, score, ret,
                   trace>>

\* verify_google_results.verify_and_deduplicate(): duplicates are counted
\* among the successful entries; when there are some, all the entries are
\* deduplicated
VerifyGoogleResults ==
    /\ pc = "idle"
    /\ args' = [fn |-> "verify_google_results.verify_and_deduplicate"]
    /\ IF "results" \notin DOMAIN files
       THEN /\ ret' = PyFalse
            /\ UNCHANGED files
       ELSE LET all_cases == files.dataset
                all_case_ids == {all_cases[i] : i \in DOMAIN all_cases}
                predictions == files.results.predictions
                duplicates ==
                    {case_id \in case_ids_of(successful(predictions)) :
                        Len(SelectSeq(successful(predictions),
                                      LAMBDA p : p.case_id = case_id)) > 1}
                missing == all_case_ids \ case_ids_of(successful(predictions))
            IN  /\ ret' = PyBool(missing = {})
                /\ files' = IF duplicates = {} THEN files
                            ELSE [files EXCEPT !.results =
                                     ResultsFile(deduplicated(predictions),
                                                 Len(successful(deduplicated(predictions))))]
    /\ UNCHANGED <<tolerance, predicted, ground_truth, pc, result, results, score, trace>>

\* complete_google_evaluation.verify_and_deduplicate(): duplicates are counted
\* among all the entries, and total_cases is left as it was
CompleteGoogleEvaluation ==
    /\ pc = "idle"
    /\ args' = [fn |-> "complete_google_evaluation.verify_and_deduplicate"]
    /\ IF "results" \notin DOMAIN files
       THEN /\ ret' = PyFalse
            /\ UNCHANGED files
       ELSE LET all_cases == files.dataset
                all_case_ids == {all_cases[i] : i \in DOMAIN all_cases}
                predictions == files.results.predictions
                duplicates ==
                    {case_id \in case_ids_of(predictions) :
                        Len(SelectSeq(predictions, LAMBDA p : p.case_id = case_id)) > 1}
                missing == all_case_ids \ case_ids_of(successful(predictions))
            IN  /\ ret' = PyBool(missing = {})
                /\ files' = IF duplicates = {} THEN files
                            ELSE [files EXCEPT !.results =
                                     ResultsFile(deduplicated(predictions),
                                                 files.results.total_cases)]
    /\ UNCHANGED <<tolerance, predicted, ground_truth, pc, result, results, score, trace>>

NextResults ==
    \/ EvaluateMissingStart
    \/ EvaluateMissingCase
    \/ DeduplicateResults
    \/ VerifyGoogleResults
    \/ CompleteGoogleEvaluation

SpecResults == InitResults /\ [][NextResults]_vars

\* no case_id has two entries
NoDuplicates(predictions) ==
    \A i, j \in DOMAIN predictions :
        predictions[i].case_id = predictions[j].case_id => i = j

\* every entry of the one list is an entry of the other
AllKept(before, after) ==
    \A i \in DOMAIN before : \E j \in DOMAIN after : after[j] = before[i]

\* C23: after any incremental save of evaluate_missing_cases no case_id
\* appears more than once in the saved predictions list, and every prediction
\* that was in the results file before the run is still in it.
C23_NoDuplicateAfterSave ==
    (args.fn = "evaluate_missing_cases" /\ args.predictions # <<>>)
        => /\ NoDuplicates(files.results.predictions)
           /\ AllKept(args.existing_predictions, files.results.predictions)

C29_TrueMeansAllEvaluated ==
    (/\ args.fn \in {"verify_google_results.verify_and_deduplicate",
                     "complete_google_evaluation.verify_and_deduplicate"}
     /\ ret = PyTrue)
        => \A i \in DOMAIN files.dataset :
              files.dataset[i] \in case_ids_of(successful(files.results.predictions))

(***************************************************************************)
(* The batch round trip of run_batch_evaluation: create_batch_file writes  *)
(* one request per case, the batch service answers each request, and       *)
(* download_results scores the answers against the dataset.                *)
(***************************************************************************)
MaxBatchCases == 3

\* The case ids of the batch datasets; an id is any non-empty string, one
\* that ends in an underscore and a number included
BatchCaseIds == {Chars("A"), Chars("A_1")}

\* The ground truths of the batch datasets
BatchGroundTruths ==
    {[k \in {"resolution_type"} |-> PyStr(S_settled)],
     [k \in {"resolution_type"} |-> PyStr(S_litigated)]}

\* A case of the dataset file
Case(case_id, complaint_text, ground_truth_of_case) ==
    [case_id |-> case_id, complaint_text |-> complaint_text,
     ground_truth |-> ground_truth_of_case]

\* The datasets: up to MaxBatchCases cases, each with a complaint text of its own
BatchDatasets ==
    UNION {{[i \in 1..n |-> Case(ids[i], <<"complaint", i>>, truths[i])] :
               ids \in [1..n -> BatchCaseIds], truths \in [1..n -> BatchGroundTruths]} :
           n \in 1..MaxBatchCases}

\* template.format(complaint_text=text), without truncation
format_prompt(complaint_text) ==
    [template |-> "PROMPT_TEMPLATE", complaint_text |-> complaint_text]

\* f"{base_id}_{idx}" if base_id in seen_ids else base_id, for the case at
\* idx of enumerate(cases), which counts from 0
custom_id(cases, idx) ==
    LET base_id == cases[idx + 1].case_id
        seen_ids == {cases[j].case_id : j \in 1..idx}
    IN  IF base_id \in seen_ids THEN base_id \o <<"_">> \o NatStr(idx) ELSE base_id

\* The request written for the case at idx
Request(cases, idx) ==
    [custom_id |-> custom_id(cases, idx),
     prompt |-> format_prompt(cases[idx + 1].complaint_text)]

\* {c['case_id']: c for c in cases}: a later case replaces an earlier one of
\* the same id
cases_by_id(cases) ==
    [id \in {cases[i].case_id : i \in DOMAIN cases} |->
        cases[CHOOSE i \in DOMAIN cases :
                 /\ cases[i].case_id = id
                 /\ \A j \in (i + 1)..Len(cases) : cases[j].case_id # id]]

\* Whether a decoded value has the get method of a mapping
IsMapping(value) == "t" \notin DOMAIN value

\* What the batch service gives for a request: an error, or a response text
BatchError == <<"error">>
BatchAnswers ==
    {BatchError,
     <<"{", "\"resolution_type\":", "\"settled\"", "}">>,
     <<"5">>}

InitBatch ==
    /\ tolerance = DefaultTolerance
    /\ predicted = EmptyDict
    /\ ground_truth = EmptyDict
    /\ pc = "idle"
    /\ result = PredictionResult(EmptyDict, EmptyDict)
    /\ results = <<>>
    /\ score = NoScore
    /\ args = NoArgs
    /\ ret = PyNone
    /\ trace = <<>>
    /\ \E cases \in BatchDatasets : files = [dataset |-> cases]

\* create_batch_file(model, max_cases); max_cases 0 stands for None too, both
\* being falsy
CreateBatchFile ==
    /\ pc = "idle"
    /\ \E max_cases \in 0..Len(files.dataset) :
          LET cases == IF max_cases # 0 THEN SubSeq(files.dataset, 1, max_cases)
                       ELSE files.dataset
          IN  /\ args' = [fn |-> "create_batch_file", max_cases |-> max_cases]
              /\ files' = SetItem(files, "batch_input",
                                  [i \in DOMAIN cases |-> Request(cases, i - 1)])
    /\ pc' = "created"
    /\ UNCHANGED <<tolerance, predicted, ground_truth, result, results, score, ret, trace>>

\* download_results(batch_id) up to its loop, for a completed batch
DownloadStart ==
    /\ pc = "created"
    /\ args' = [fn |-> "download_results",
                cases_by_id |-> cases_by_id(files.dataset),
                predictions |-> <<>>]
    /\ results' = <<>>
    /\ pc' = "downloading"
    /\ UNCHANGED <<tolerance, predicted, ground_truth, result, score, ret, files, trace>>

\* One turn of its loop, for the answer to the next request; after the last
\* answer the score is computed and the output saved
DownloadResult ==
    /\ pc = "downloading"
    /\ \E answer \in BatchAnswers :
          LET i == Len(args.predictions) + 1
              case_id == files.batch_input[i].custom_id
              case == IF case_id \in DOMAIN args.cases_by_id
                      THEN args.cases_by_id[case_id] ELSE EmptyDict
              case_ground_truth == IF "ground_truth" \in DOMAIN case
                                   THEN case.ground_truth ELSE EmptyDict
              last == i = Len(files.batch_input)
          IN  IF answer = BatchError
              THEN /\ args' = [args EXCEPT !.predictions =
                                  Append(@, [case_id |-> case_id, success |-> FALSE,
                                             ground_truth |-> case_ground_truth])]
                   /\ pc' = IF last THEN "downloaded" ELSE "downloading"
                   /\ score' = IF last THEN calculate_model_score(results) ELSE score
                   /\ files' = IF last
                               THEN SetItem(files, "results",
                                            [predictions |-> args'.predictions,
                                             score |-> to_dict(calculate_model_score(results))])
                               ELSE files
                   /\ UNCHANGED <<predicted, ground_truth, result, results>>
              ELSE \E parsed \in {parse_llm_response(answer)} :
                   IF parsed.kind # "ok" \/ ~IsMapping(parsed.value)
                   THEN /\ pc' = "raised"
                        /\ UNCHANGED <<predicted, ground_truth, result, results, score,
                                       args, files>>
                   ELSE \E out \in {compare_single(parsed.value, case_ground_truth,
                                                   tolerance)} :
                        IF out.raised
                        THEN /\ pc' = "raised"
                             /\ UNCHANGED <<predicted, ground_truth, result, results,
                                            score, args, files>>
                        ELSE /\ predicted' = parsed.value
                             /\ ground_truth' = case_ground_truth
                             /\ result' = out.value
                             /\ results' = Append(results, out.value)
                             /\ args' = [args EXCEPT !.predictions =
                                            Append(@, [case_id |-> case_id,
                                                       success |-> TRUE,
                                                       ground_truth |-> case_ground_truth,
                                                       comparison |-> out.value])]
                             /\ pc' = IF last THEN "downloaded" ELSE "downloading"
                             /\ score' = IF last THEN calculate_model_score(results')
                                         ELSE score
                             /\ files' = IF last
                                         THEN SetItem(files, "results",
                                                  [predictions |-> args'.predictions,
                                                   score |->
                                                     to_dict(calculate_model_score(results'))])
                                         ELSE files
    /\ UNCHANGED <<tolerance, ret, trace>>

NextBatch == CreateBatchFile \/ DownloadStart \/ DownloadResult

SpecBatch == InitBatch /\ [][NextBatch]_vars

\* C25: create_batch_file writes exactly one request per case of the list, in
\* order, and all custom_id values written to the batch file are pairwise
\* distinct, also when several cases share a case_id.
C25_UniqueCustomIds ==
    args.fn = "create_batch_file"
        => LET requests == files.batch_input
           IN  /\ Len(requests) \in {Len(files.dataset), args.max_cases}
               /\ \A i \in DOMAIN requests :
                     requests[i].prompt = format_prompt(files.dataset[i].complaint_text)
               /\ \A i, j \in DOMAIN requests :
                     requests[i].custom_id = requests[j].custom_id => i = j

\* the case whose prompt a request carries
CaseOfRequest(request) ==
    CHOOSE case \in {files.dataset[i] : i \in DOMAIN files.dataset} :
        format_prompt(case.complaint_text) = request.prompt

\* C30: every result that download_results scores is compared against the
\* ground truth of the dataset case whose prompt create_batch_file wrote under
\* that result's custom_id, also when several dataset cases share a case_id.
C30_ScoredAgainstOwnCase ==
    args.fn = "download_results"
        => \A i \in DOMAIN args.predictions :
              args.predictions[i].success
                  => args.predictions[i].ground_truth
                         = CaseOfRequest(files.batch_input[i]).ground_truth

(***************************************************************************)
(* LLMRunner: run_evaluation runs run_single on each case in turn, and     *)
(* run_single asks the provider up to retry_count times.  The trace keeps  *)
(* what the runner did to the outside: the progress callbacks, the calls   *)
(* of provider.generate with their outcome, and the sleeps.                *)
(***************************************************************************)
MaxRunCases == 2

\* The default of retry_count, and the values a runner is constructed with
DefaultRetryCount == 3
RetryCounts == 0..DefaultRetryCount

\* The default of retry_delay, in tenths of a second
retry_delay == 10

\* The cases given to the runner
RunnerCases ==
    {[case_id |-> "A", complaint_text |-> <<"complaint", 1>>,
      ground_truth |-> [k \in {"resolution_type"} |-> PyStr(S_settled)]],
     [case_id |-> "B", complaint_text |-> <<"complaint", 2>>,
      ground_truth |-> [k \in {"has_injunction"} |-> PyTrue]]}

\* What provider.generate does on a call: it returns a response text, or
\* raises an exception with a message
ProviderResponses ==
    {<<"{", "\"resolution_type\":", "\"settled\"", "}">>,
     <<"5">>}
ProviderErrors == {PyStr(Chars("timeout")), PyStr(Chars("rate limit"))}

\* The events of the trace
ProgressCallback(i, n) == [ev |-> "progress_callback", i |-> i, n |-> n]
Generate(case_index, prompt, outcome, text) ==
    [ev |-> "generate", case |-> case_index, prompt |-> prompt,
     outcome |-> outcome, text |-> text]
Sleep(case_index, seconds) == [ev |-> "sleep", case |-> case_index, seconds |-> seconds]

\* time.sleep after every failed attempt, the last one included
SleepsAfterEvery(attempt, retry_count) == TRUE

\* if attempt < self.retry_count - 1: time.sleep(self.retry_delay)
SleepsAfter(attempt, retry_count) == attempt < retry_count - 1

\* What run_single returns when no attempt gave a response
RunFailed(case, error) ==
    [case_id |-> case.case_id, success |-> FALSE, error |-> error,
     predicted |-> EmptyDict, ground_truth |-> case.ground_truth,
     raw_response |-> PyNone]

\* What run_single returns for a response that was parsed and compared
RunSucceeded(case, response, parsed, comparison) ==
    [case_id |-> case.case_id, success |-> TRUE, predicted |-> parsed,
     ground_truth |-> case.ground_truth, raw_response |-> response,
     comparison |->
        [resolution_type_correct |-> comparison.resolution_type_correct,
         disgorgement_correct |-> comparison.disgorgement_correct,
         penalty_correct |-> comparison.penalty_correct,
         interest_correct |-> comparison.interest_correct,
         injunction_correct |-> comparison.injunction_correct,
         officer_bar_correct |-> comparison.officer_bar_correct,
         conduct_restriction_correct |-> comparison.conduct_restriction_correct,
         errors |-> comparison.errors]]

\* The PredictionResult run_evaluation builds from a successful result: the
\* seven fields of its comparison and its two mappings, errors left empty
ComparisonOf(run_result) ==
    [resolution_type_correct |-> run_result.comparison.resolution_type_correct,
     disgorgement_correct |-> run_result.comparison.disgorgement_correct,
     penalty_correct |-> run_result.comparison.penalty_correct,
     interest_correct |-> run_result.comparison.interest_correct,
     injunction_correct |-> run_result.comparison.injunction_correct,
     officer_bar_correct |-> run_result.comparison.officer_bar_correct,
     conduct_restriction_correct |-> run_result.comparison.conduct_restriction_correct,
     predicted |-> run_result.predicted,
     ground_truth |-> run_result.ground_truth,
     errors |-> <<>>]

\* a comparison appended for a failed result too, of its empty prediction
CollectComparisonAlways(comparison_results, run_result) ==
    IF run_result.success THEN Append(comparison_results, ComparisonOf(run_result))
    ELSE Append(comparison_results,
                compare_single(run_result.predicted, run_result.ground_truth,
                               DefaultTolerance).value)

\* if result['success']: comparison_results.append(pr)
CollectComparison(comparison_results, run_result) ==
    IF run_result.success THEN Append(comparison_results, ComparisonOf(run_result))
    ELSE comparison_results

\* The EvaluationResult of run_evaluation
EvaluationResult(model_score, predictions) ==
    [score |-> model_score, predictions |-> predictions]

\* A runner and the arguments of a call of run_evaluation
InitRunner ==
    /\ tolerance = DefaultTolerance
    /\ predicted = EmptyDict
    /\ ground_truth = EmptyDict
    /\ pc = "ready"
    /\ result = PredictionResult(EmptyDict, EmptyDict)
    /\ results = <<>>
    /\ score = NoScore
    /\ args \in {[fn |-> "run_evaluation", cases |-> cases, retry_count |-> retry_count,
                  progress_callback |-> progress_callback,
                  predictions |-> <<>>, attempt |-> 0, error |-> PyNone] :
                    cases \in UNION {[1..n -> RunnerCases] : n \in 0..MaxRunCases},
                    retry_count \in RetryCounts,
                    progress_callback \in BOOLEAN}
    /\ ret = PyNone
    /\ files = NoFiles
    /\ trace = <<>>

\* The end of a turn of run_evaluation's loop: the result of run_single is
\* appended, its comparison collected when it succeeded, and after the last
\* case the score is computed and the EvaluationResult returned
CaseDone(run_result, events) ==
    LET predictions == Append(args.predictions, run_result)
        comparison_results == CollectComparison(results, run_result)
    IN  /\ args' = [args EXCEPT !.predictions = predictions, !.attempt = 0,
                                !.error = PyNone]
        /\ results' = comparison_results
        /\ trace' = trace \o events
        /\ IF Len(predictions) = Len(args.cases)
           THEN /\ score' = calculate_model_score(comparison_results)
                /\ ret' = EvaluationResult(calculate_model_score(comparison_results),
                                           predictions)
                /\ pc' = "returned"
           ELSE /\ pc' = "running"
                /\ UNCHANGED <<score, ret>>

\* run_evaluation(cases, progress_callback) up to its loop; without cases it
\* returns at once
RunEvaluation ==
    /\ pc = "ready"
    /\ IF args.cases = <<>>
       THEN /\ score' = calculate_model_score(<<>>)
            /\ ret' = EvaluationResult(calculate_model_score(<<>>), <<>>)
            /\ pc' = "returned"
       ELSE /\ pc' = "running"
            /\ UNCHANGED <<score, ret>>
    /\ UNCHANGED <<tolerance, predicted, ground_truth, result, results, args, files,
                   trace>>

\* The start of a turn: the progress callback, then run_single up to its
\* retry loop, which makes no attempt when retry_count is 0
NextCase ==
    /\ pc = "running"
    /\ LET i == Len(args.predictions)
           case == args.cases[i + 1]
           called == IF args.progress_callback
                     THEN <<ProgressCallback(i + 1, Len(args.cases))>> ELSE <<>>
       IN  IF args.retry_count = 0
           THEN CaseDone(RunFailed(case, PyNone), called)
           ELSE /\ trace' = trace \o called
                /\ pc' = "generating"
                /\ UNCHANGED <<results, score, args, ret>>
    /\ UNCHANGED <<tolerance, predicted, ground_truth, result, files>>

\* An attempt on which provider.generate raises: the message is kept, the
\* runner sleeps unless the attempt was the last, and after the last attempt
\* run_single returns the failure
GenerateRaises ==
    /\ pc = "generating"
    /\ \E error \in ProviderErrors :
          LET i == Len(args.predictions)
              case == args.cases[i + 1]
              attempt == args.attempt
              events == <<Generate(i + 1, format_prompt(case.complaint_text),
                                   "raised", error)>>
                        \o IF SleepsAfter(attempt, args.retry_count)
                           THEN <<Sleep(i + 1, retry_delay)>> ELSE <<>>
          IN  IF attempt + 1 < args.retry_count
              THEN /\ args' = [args EXCEPT !.attempt = attempt + 1, !.error = error]
                   /\ trace' = trace \o events
                   /\ UNCHANGED <<pc, results, score, ret>>
              ELSE CaseDone(RunFailed(case, error), events)
    /\ UNCHANGED <<tolerance, predicted, ground_truth, result, files>>

\* An attempt on which provider.generate returns: the response is parsed and
\* compared, and run_single returns the result, unless the comparison raises
GenerateReturns ==
    /\ pc = "generating"
    /\ \E response \in ProviderResponses :
          LET i == Len(args.predictions)
              case == args.cases[i + 1]
              events == <<Generate(i + 1, format_prompt(case.complaint_text),
                                   "returned", response)>>
          IN  \E parsed \in {parse_llm_response(response)} :
                 IF parsed.kind # "ok" \/ ~IsMapping(parsed.value)
                 THEN /\ pc' = "raised"
                      /\ trace' = trace \o events
                      /\ UNCHANGED <<predicted, ground_truth, result, results, score,
                                     args, ret>>
                 ELSE \E out \in {compare_single(parsed.value, case.ground_truth,
                                                 tolerance)} :
                      IF out.raised
                      THEN /\ pc' = "raised"
                           /\ trace' = trace \o events
                           /\ UNCHANGED <<predicted, ground_truth, result, results,
                                          score, args, ret>>
                      ELSE /\ predicted' = parsed.value
                           /\ ground_truth' = case.ground_truth
                           /\ result' = out.value
                           /\ CaseDone(RunSucceeded(case, response, parsed.value,
                                                    out.value), events)
    /\ UNCHANGED <<tolerance, files>>

NextRunner == RunEvaluation \/ NextCase \/ GenerateRaises \/ GenerateReturns

SpecRunner == InitRunner /\ [][NextRunner]_vars

\* the calls of provider.generate made for the case at index k, in order
GenerateEvents(k) ==
    SelectSeq(trace, LAMBDA e : e.ev = "generate" /\ e.case = k)

\* the number of calls of provider.generate made for a case before position t
AttemptAt(t) ==
    Cardinality({u \in 1..(t - 1) :
                    trace[u].ev = "generate" /\ trace[u].case = trace[t].case})

\* C26: run_single calls provider.generate at most retry_count times for a
\* case and makes no call after the first that returns; no provider exception
\* escapes; it returns success=true with a comparison iff some attempt
\* returned a response, and otherwise success=false with the error text of the
\* last failed attempt, an empty predicted mapping and no comparison; it
\* sleeps retry_delay after each failed attempt except the last one.
C26_RetriesThenFailure ==
    args.fn = "run_evaluation"
        => /\ \A k \in DOMAIN args.cases :
                 LET calls == GenerateEvents(k)
                 IN  /\ Len(calls) <= args.retry_count
                     /\ \A j \in DOMAIN calls :
                           calls[j].outcome = "returned" => j = Len(calls)
                     /\ k <= Len(args.predictions)
                           => LET run_result == args.predictions[k]
                              IN  /\ run_result.success
                                        <=> \E j \in DOMAIN calls :
                                               calls[j].outcome = "returned"
                                  /\ run_result.success
                                        => "comparison" \in DOMAIN run_result
                                  /\ ~run_result.success
                                        => /\ "comparison" \notin DOMAIN run_result
                                           /\ run_result.predicted = EmptyDict
                                           /\ Len(calls) = args.retry_count
                                           /\ run_result.error =
                                                 IF calls = <<>> THEN PyNone
                                                 ELSE calls[Len(calls)].text
           /\ pc = "raised" => trace[Len(trace)].outcome = "returned"
           /\ \A t \in DOMAIN trace :
                 /\ (trace[t].ev = "generate" /\ trace[t].outcome = "raised")
                       => (AttemptAt(t) < args.retry_count - 1
                              <=> /\ t < Len(trace)
                                  /\ trace[t + 1] = Sleep(trace[t].case, retry_delay))
                 /\ trace[t].ev = "sleep"
                       => /\ t > 1
                          /\ trace[t - 1].ev = "generate"
                          /\ trace[t - 1].outcome = "raised"

\* three attempts on the first case raised, the last with another message
\* than the first; the runner slept twice and returned the last message
C26_Witness ==
    /\ args.fn = "run_evaluation"
    /\ args.retry_count = 3
    /\ Len(args.predictions) >= 1
    /\ ~args.predictions[1].success
    /\ args.predictions[1].error = PyStr(Chars("rate limit"))
    /\ Len(GenerateEvents(1)) = 3
    /\ GenerateEvents(1)[1].text = PyStr(Chars("timeout"))
    /\ Len(SelectSeq(trace, LAMBDA e : e.ev = "sleep" /\ e.case = 1)) = 2

\* C27: for every response a provider returns, one whose text is valid JSON
\* that is not an object included, parse_llm_response returns a mapping, and
\* run_single returns a result record rather than raising.
C27_AlwaysAMapping ==
    args.fn = "run_evaluation"
        => /\ pc # "raised"
           /\ \A t \in DOMAIN trace :
                 (trace[t].ev = "generate" /\ trace[t].outcome = "returned")
                    => /\ parse_llm_response(trace[t].text).kind = "ok"
                       /\ IsMapping(parse_llm_response(trace[t].text).value)

\* C28: run_evaluation over n cases returns n predictions, one per case in
\* input order, and a score computed from exactly the comparisons of the cases
\* whose run_single succeeded: total_cases is the number of successes and a
\* failed case is in no count.  The progress callback is called once per case
\* with (i, n), i = 1..n in order, each before that case is run.
C28_OnePredictionPerCase ==
    (args.fn = "run_evaluation" /\ pc = "returned")
        => LET n == Len(args.cases)
               succeeded == SelectSeq(ret.predictions, LAMBDA r : r.success)
               callbacks == SelectSeq(trace, LAMBDA e : e.ev = "progress_callback")
           IN  /\ Len(ret.predictions) = n
               /\ \A i \in 1..n :
                     /\ ret.predictions[i].case_id = args.cases[i].case_id
                     /\ ret.predictions[i].ground_truth = args.cases[i].ground_truth
               /\ ret.score =
                     calculate_model_score([j \in DOMAIN succeeded |->
                                               ComparisonOf(succeeded[j])])
               /\ ret.score.total_cases = Len(succeeded)
               /\ ret.score.resolution_scorable =
                     Cardinality({j \in DOMAIN succeeded :
                                     succeeded[j].comparison.resolution_type_correct
                                        # PyNone})
               /\ callbacks = IF args.progress_callback
                              THEN [i \in 1..n |-> ProgressCallback(i, n)] ELSE <<>>
               /\ \A t, u \in DOMAIN trace :
                     (trace[t].ev = "progress_callback" /\ trace[u].ev # "progress_callback")
                        => (t < u <=> trace[t].i <= trace[u].case)

\* two cases with a callback: the first succeeded and the second failed, and
\* the score counts one case
C28_Witness ==
    /\ args.fn = "run_evaluation"
    /\ pc = "returned"
    /\ Len(args.cases) = 2
    /\ args.progress_callback
    /\ ret.predictions[1].success
    /\ ~ret.predictions[2].success
    /\ ret.score.total_cases = 1
    /\ Len(trace) > 3

=============================================================================
